---- MODULE Spec2Model ----
(***************************************************************************)
(* Model of the Tello drone controller.                                    *)
(*                                                                         *)
(*   tello_lib/command_handler.py  CommandHandler (command socket, lock,   *)
(*                                 retry loop, keep-alive loop)            *)
(*   tello_lib/controller.py       TelloController (flight state machine,  *)
(*                                 telemetry loop)                         *)
(*   tello_lib/video.py            VideoStream (capture loop, health       *)
(*                                 counter)                                *)
(*   tello_lib/video_alt.py        VideoStream on a demuxing container     *)
(*   drone.py                      the single-file TelloController and     *)
(*                                 its VideoStream                         *)
(*                                                                         *)
(* Spec            is the tello_lib controller: the pilot's thread, the    *)
(*                 keep-alive thread, the telemetry thread and the vehicle.*)
(* ChannelSpec     is the CommandHandler on its own: two threads calling   *)
(*                 send_command, start() and stop(), the keep-alive thread *)
(*                 and the vehicle.                                        *)
(* FairChannelSpec is ChannelSpec with the fairness of the thread          *)
(*                 scheduler and of the lock.                              *)
(* DroneSpec       is drone.py: one caller thread and the vehicle.         *)
(* MotionSpec      is the tello_lib controller with connect, move,         *)
(*                 rotate, set_speed and get_speed.                        *)
(* SessionSpec     is the tello_lib controller with connect and            *)
(*                 disconnect called in any order, each connect starting   *)
(*                 a new keep-alive thread.                                *)
(* FairSessionSpec is SessionSpec with the fairness of the thread          *)
(*                 scheduler and of the lock.                              *)
(* VideoSpec       is the VideoStream of tello_lib/video.py: its owner     *)
(*                 thread, the capture threads and the frame source.       *)
(* DVideoSpec      is the VideoStream of drone.py, likewise.               *)
(* AVideoSpec      is the VideoStream of tello_lib/video_alt.py, likewise. *)
(* FrameSpec       is the VideoStream of tello_lib/video.py on a source    *)
(*                 of valid frames, with its owner thread and a second     *)
(*                 thread polling get_frame.                               *)
(* HeightSpec      is _parse_height of drone.py applied to height replies. *)
(* TelemetrySpec   is the tello_lib controller with connect and the        *)
(*                 telemetry loop on whole datagrams.                      *)
(* CleanupSpec     is drone.py with connect, its telemetry thread and      *)
(*                 cleanup.                                                *)
(* FairCleanupSpec is CleanupSpec with the fairness of the thread          *)
(*                 scheduler.                                              *)
(* RaceSpec        is the VideoStream of tello_lib/video.py with start     *)
(*                 and stop called from two threads.                       *)
(***************************************************************************)
EXTENDS Integers, Sequences, FiniteSets, TLC

\* ------------------------------------------------------------------ bounds
\* API calls the pilot makes on the controller in one behaviour.
MaxCalls == 3
\* send_command calls the caller threads make on the handler directly.
MaxDirect == 2
\* Datagrams the network holds in one direction; a datagram sent to a full
\* network is lost (UDP).
MaxNet == 1
\* Largest retries argument a direct caller of send_command passes.
MaxRetries == 2
\* API calls the pilot makes in one behaviour of the movement operations.
MaxMotion == 2
\* ------------------------------------------------------- program constants
MIN_ALTITUDE == 10
PingInterval == 12
DefaultRetries == 3
\* drone.py: _send_command(..., retries: int = 3)
DRetries == 3
\* Seconds that pass in one step of the clock: one idle interval.
TickSeconds == PingInterval

NoThread == "none"
None == "None"
IMU_WARNING == "error No valid imu"

Pilot == "u1"
Callers == {"u1", "u2"}
PingOrder == <<"p1", "p2">>
Pings == {PingOrder[i] : i \in 1..Len(PingOrder)}
Threads == Callers \cup Pings

DroneStates ==
  {"DISCONNECTED", "CONNECTED", "FLYING", "FLYING_UNSTABLE", "LANDED", "ERROR"}

\* Reply texts of the vehicle, decoded and stripped.
Replies == {"ok", "error", IMU_WARNING}
\* The vehicle answers a query with a value or an error.
RepliesTo(cmd) == IF cmd = "speed?" THEN {"10.0", "error"} ELSE Replies
\* Altitudes (cm) the telemetry reports.
Altitudes == {10, 50}
\* The command text each direct send_command caller sends.
DirectCommand == [t \in Callers |-> IF t = "u1" THEN "takeoff" ELSE "land"]

Min(a, b) == IF a < b THEN a ELSE b

\* "error No valid imu" in response
HasImuWarning(r) == r = IMU_WARNING

VARIABLES
  \* ---- tello_lib.controller.TelloController
  state,            \* _status.state
  altitude,         \* _status.altitude
  running,          \* _running (telemetry loop flag)
  status_thread,    \* _status_thread: "unstarted" | "alive" | "exited"
  status_socket,    \* _status_socket: "open" | "closed"
  op,               \* per caller: the API call in progress or last returned
  speed,            \* _status.speed, NoSpeed while the attribute does not exist
  telemetry,        \* fields: the other fields of _status; last, n: the
                    \* telemetry datagram received last and their number
  \* ---- tello_lib.command_handler.CommandHandler
  command_lock,     \* holder of _command_lock, or NoThread
  since_last,       \* time.time() - _last_command_time, saturated at PingInterval
  ch_running,       \* _running (keep-alive flag)
  cmd_socket,       \* _cmd_socket: "open" | "closed"
  ping_thread,      \* _ping_thread: the thread last started, or NoThread
  ping_pc,          \* per keep-alive thread: position in _ping_loop
  sc,               \* per thread: its send_command frame
  stop_pc,          \* CommandHandler.stop() called on its own: its position
  \* ---- the network and the vehicle
  pending,          \* command datagrams on their way to / held by the vehicle
  rxbuf,            \* reply datagrams in the command socket's receive buffer
  ncalls,           \* per caller: API calls made so far
  \* ---- drone.py TelloController
  d_state,          \* _status.state
  d_thread,         \* _status_thread: "unstarted" | "alive" (at the loop's
                    \* test) | "recv" (in recvfrom) | "exited"
  d_running,        \* TelloController._running of drone.py
  d_status,         \* _status.battery and _status.flight_time
  d_op,             \* the API call in progress or last returned
  d_sc,             \* the _send_command frame
  d_pending,        \* command datagrams on their way to the vehicle
  d_rxbuf,          \* reply datagrams in the command socket's receive buffer
  d_ncalls,         \* API calls made so far
  \* ---- VideoStream (tello_lib/video.py, and the class of drone.py)
  v_state,          \* _state
  v_running,        \* _running
  v_thread,         \* _thread: the capture thread last created, or NoThread
  v_loop,           \* per capture thread: "unstarted" | "starting" | "running" | "exited"
  v_cap,            \* _cap: the frame source last created, or None
  v_caps,           \* per frame source: "unused" | "open" | "closed"
  v_counter,        \* _consecutive_valid_frames
  v_last_frame,     \* _last_frame: None or a frame
  v_since,          \* time.time() - _last_frame_time, saturated
  v_hist,           \* history: kind and length of the current run of frames
  v_call            \* per caller: the VideoStream call in progress or last returned

ctl_vars == <<state, altitude, running, status_thread, status_socket, op>>
ch_vars == <<command_lock, since_last, ch_running, cmd_socket, ping_thread,
             ping_pc, sc, stop_pc>>
net_vars == <<pending, rxbuf>>
lib_vars == <<ctl_vars, ch_vars, net_vars, ncalls>>
telemetry_vars == <<telemetry, d_status>>
status_vars == <<speed, telemetry_vars>>
drone_vars == <<d_state, d_thread, d_running, d_op, d_sc, d_pending, d_rxbuf, d_ncalls>>
video_vars == <<v_state, v_running, v_thread, v_loop, v_cap, v_caps, v_counter,
                v_last_frame, v_since, v_hist, v_call>>
nonvideo_vars == <<lib_vars, drone_vars, status_vars>>
vars == <<lib_vars, drone_vars, status_vars, video_vars>>

\* ------------------------------------------------------- telemetry fields
\* STATUS_UPDATES: the field written from the value at each index, in order.
StatusFields ==
  <<"pitch", "roll", "yaw", "velocity.x", "velocity.y", "velocity.z",
    "temperature.low", "temperature.high", "time_of_flight", "altitude",
    "battery", "barometric_pressure", "time", "acceleration.x",
    "acceleration.y", "acceleration.z">>

\* The fields STATUS_UPDATES converts with float(); the others with int().
FloatFields ==
  {"velocity.x", "velocity.y", "velocity.z", "barometric_pressure",
   "acceleration.x", "acceleration.y", "acceleration.z"}

\* The fields kept in telemetry.fields (altitude has its own variable).
StoredFields == {StatusFields[i] : i \in 1..Len(StatusFields)} \ {"altitude"}

\* No datagram has been received.
NoDatagram == [seed |-> 0, defect |-> "nothing", pos |-> 0]

\* ------------------------------------------------------------ call frames
\* A send_command frame. sent counts the datagrams this call has put on the
\* socket, texts is the set of their payloads, got whether a reply came.
IdleFrame ==
  [pc |-> "idle", command |-> None, retries |-> 0, attempt |-> 0,
   sent |-> 0, texts |-> {}, ret |-> None, got |-> FALSE]

\* send_command(command, retries=retries) is entered: wait for the lock.
EnterFrame(cmd, n) ==
  [pc |-> "lock", command |-> cmd, retries |-> n, attempt |-> 0,
   sent |-> 0, texts |-> {}, ret |-> None, got |-> FALSE]

\* DroneStatus.__init__ creates no `speed` attribute: reading it raises
\* AttributeError until set_speed or get_speed has stored one.
NoSpeed == -1

\* An API call frame. before is _status.state on entry, response what
\* send_command returned, h1 and h2 the altitudes read by the verification
\* step and by the error handler (-1: not read), word and arg the direction
\* and the numeric argument, cached _status.speed on entry and value a number
\* returned (-1: none).
IdleOp ==
  [name |-> "none", pc |-> "done", ret |-> "none", before |-> "DISCONNECTED",
   response |-> None, h1 |-> -1, h2 |-> -1, word |-> "", arg |-> 0,
   cached |-> NoSpeed, value |-> -1]

NewOp(nm, p, st) ==
  [name |-> nm, pc |-> p, ret |-> "none", before |-> st,
   response |-> None, h1 |-> -1, h2 |-> -1, word |-> "", arg |-> 0,
   cached |-> NoSpeed, value |-> -1]

\* drone.py: a _send_command frame. sent counts the datagrams of this call,
\* got says that the value returned is a datagram's text, raised that the
\* call ended by raising CommandError.
DIdleFrame ==
  [pc |-> "idle", command |-> None, attempt |-> 0, sent |-> 0, ret |-> <<>>,
   got |-> FALSE, raised |-> FALSE]

DEnterFrame(cmd) ==
  [pc |-> "send", command |-> cmd, attempt |-> 0, sent |-> 0, ret |-> <<>>,
   got |-> FALSE, raised |-> FALSE]

\* drone.py: an API call frame. sent counts the datagrams of the whole call,
\* acked says that the vehicle's reply to the flight command was "ok",
\* height is the altitude the call parsed from a `height?` reply (-1: none)
\* and via the step that asked for it.
DIdleOp ==
  [name |-> "none", pc |-> "done", ret |-> "none", before |-> "DISCONNECTED",
   sent |-> 0, acked |-> FALSE, height |-> -1, via |-> "none"]

DNewOp(nm, p, st) ==
  [name |-> nm, pc |-> p, ret |-> "none", before |-> st, sent |-> 0,
   acked |-> FALSE, height |-> -1, via |-> "none"]

DInit ==
  /\ d_state = "DISCONNECTED"
  /\ d_thread = "unstarted"
  /\ d_running = FALSE
  /\ d_status = [battery |-> 0, flight_time |-> 0]
  /\ d_op = DIdleOp
  /\ d_sc = DIdleFrame
  /\ d_pending = <<>>
  /\ d_rxbuf = <<>>
  /\ d_ncalls = 0

LibInit ==
  /\ state = "DISCONNECTED"
  /\ altitude = 0
  /\ running = FALSE
  /\ status_thread = "unstarted"
  /\ status_socket = "open"
  /\ op = [t \in Callers |-> IdleOp]
  /\ command_lock = NoThread
  /\ since_last = PingInterval
  /\ ch_running = FALSE
  /\ cmd_socket = "open"
  /\ ping_thread = NoThread
  /\ ping_pc = [p \in Pings |-> "unstarted"]
  /\ sc = [t \in Threads |-> IdleFrame]
  /\ stop_pc = "idle"
  /\ pending = <<>>
  /\ rxbuf = <<>>
  /\ ncalls = [t \in Callers |-> 0]
  /\ speed = NoSpeed
  /\ telemetry = [fields |-> [f \in StoredFields |-> 0], last |-> NoDatagram,
                  n |-> 0]

\* ------------------------------------------------------------ VideoStream
\* VideoStream calls one caller thread makes in one behaviour.
MaxVideoCalls == 3

\* video.py: _frame_validation_threshold, _frame_timeout (s), start's timeout (s)
frame_validation_threshold == 30
frame_timeout == 5
StartTimeout == 15
\* drone.py: _frame_validation_threshold, start's timeout (s)
DFrameValidationThreshold == 30
DStartTimeout == 10
\* video_alt.py: _frame_validation_threshold, start's timeout (s)
AFrameValidationThreshold == 5
AStartTimeout == 15
\* The clocks are read in steps of the frame timeout.
VTickSeconds == frame_timeout

VideoStates == {"DISCONNECTED", "INITIALIZING", "STREAMING", "ERROR"}
\* Threads calling the VideoStream.
VCallers == {"a1", "a2"}
\* The thread that owns the VideoStream, and a thread that polls it.
VOwner == "a1"
VReader == "a2"
\* threading.Thread(target=self._video_loop): a new thread per start().
VThreadOrder == <<"v1", "v2">>
VThreads == {VThreadOrder[i] : i \in 1..Len(VThreadOrder)}
\* cv2.VideoCapture(...): a new frame source per start().
CapOrder == <<"c1", "c2">>
Caps == {CapOrder[i] : i \in 1..Len(CapOrder)}

VIdleCall ==
  [name |-> "none", pc |-> "done", ret |-> "None", prev |-> "none",
   waited |-> 0, after |-> "None", n |-> 0]

\* The run of consecutive iterations of one kind ("valid" | "invalid" |
\* "raised") the capture loop has made last, counted up to HistCap.
HistCap == frame_validation_threshold + 1
NoHist == [kind |-> "none", len |-> 0]
HistAfter(h, k) ==
  IF h.kind = k
    THEN [h EXCEPT !.len = IF h.len + 1 < HistCap THEN h.len + 1 ELSE HistCap]
    ELSE [kind |-> k, len |-> 1]

\* cap.read() returns a frame that differs from the one before it.
NextFrame(f) == IF f = "f0" THEN "f1" ELSE "f0"

\* VideoStream.__init__
VInit ==
  /\ v_state = "DISCONNECTED"
  /\ v_running = FALSE
  /\ v_thread = NoThread
  /\ v_loop = [th \in VThreads |-> "unstarted"]
  /\ v_cap = None
  /\ v_caps = [k \in Caps |-> "unused"]
  /\ v_counter = 0
  /\ v_last_frame = None
  /\ v_since = 0
  /\ v_hist = NoHist
  /\ v_call = [c \in VCallers |-> VIdleCall]

\* stop: self._thread and self._thread.is_alive(), the condition of the join.
VThreadAlive ==
  IF v_thread = NoThread THEN FALSE ELSE v_loop[v_thread] \in {"starting", "running"}

\* self._cap.release() when there is a frame source; self._cap = None.
VRelease ==
  /\ v_caps' = IF v_cap = None THEN v_caps ELSE [v_caps EXCEPT ![v_cap] = "closed"]
  /\ v_cap' = None

\* video.py stop(), after the join: the source is released, the frame is
\* dropped and the state is DISCONNECTED.
VStopEffect ==
  /\ VRelease
  /\ v_last_frame' = None
  /\ v_state' = "DISCONNECTED"

Init == LibInit /\ DInit /\ VInit

\* ============================================================ CommandHandler
\* Faulty variant: a lock that excludes nobody.
CanAcquire_NoExclusion(t) == TRUE

\* with self._command_lock: threading.Lock is not re-entrant, so the lock is
\* taken only when nobody holds it, the caller itself included.
CanAcquire(t) == command_lock = NoThread

\* command.encode('utf-8'): the payload of every attempt of a call.
Payload(f) == f.command

\* Faulty variant: one attempt too many.
MoreAttempts_OffByOne(f) == f.attempt <= f.retries

\* while attempt < retries:
MoreAttempts(f) == f.attempt < f.retries

\* Faulty variant: every reply is taken for an acknowledgement.
Received_AsOk(buf) == "ok"

\* response.decode('utf-8').strip() of the datagram recvfrom returns.
Received(buf) == Head(buf).text

\* send_command: `with self._command_lock:` entered.
SCAcquire(t) ==
  /\ sc[t].pc = "lock"
  /\ CanAcquire(t)
  /\ command_lock' = t
  /\ sc' = [sc EXCEPT ![t].pc = "loop"]
  /\ UNCHANGED <<since_last, ch_running, cmd_socket, ping_thread, ping_pc, stop_pc>>
  /\ UNCHANGED <<ctl_vars, net_vars, ncalls, drone_vars, status_vars, video_vars>>

\* send_command: `while attempt < retries:` and sendto. On a closed socket
\* sendto raises; `except Exception` counts the attempt and loops.
SCSend(t) ==
  /\ sc[t].pc = "loop"
  /\ MoreAttempts(sc[t])
  /\ IF cmd_socket = "open"
       THEN /\ sc' = [sc EXCEPT ![t].pc = "recv",
                                ![t].sent = @ + 1,
                                ![t].texts = @ \cup {Payload(sc[t])}]
            /\ pending' = IF Len(pending) < MaxNet
                            THEN Append(pending, Payload(sc[t]))
                            ELSE pending
       ELSE /\ sc' = [sc EXCEPT ![t].attempt = @ + 1]
            /\ UNCHANGED pending
  /\ UNCHANGED <<command_lock, since_last, ch_running, cmd_socket, ping_thread,
                 ping_pc, stop_pc>>
  /\ UNCHANGED <<ctl_vars, rxbuf, ncalls, drone_vars, status_vars, video_vars>>

\* send_command: recvfrom. A datagram in the buffer is returned, decoded and
\* stripped, whatever it says; an empty buffer times out; a closed socket
\* raises. Timeout and error count the attempt.
SCRecv(t) ==
  /\ sc[t].pc = "recv"
  /\ IF cmd_socket = "open" /\ rxbuf # <<>>
       THEN /\ sc' = [sc EXCEPT ![t].pc = "done",
                                ![t].ret = Received(rxbuf),
                                ![t].got = TRUE]
            /\ rxbuf' = Tail(rxbuf)
            /\ since_last' = 0
            /\ command_lock' = NoThread
       ELSE /\ sc' = [sc EXCEPT ![t].pc = "loop", ![t].attempt = @ + 1]
            /\ UNCHANGED <<rxbuf, since_last, command_lock>>
  /\ UNCHANGED <<ch_running, cmd_socket, ping_thread, ping_pc, stop_pc>>
  /\ UNCHANGED <<ctl_vars, pending, ncalls, drone_vars, status_vars, video_vars>>

\* send_command: the loop ends after `retries` attempts: return None.
SCGiveUp(t) ==
  /\ sc[t].pc = "loop"
  /\ ~MoreAttempts(sc[t])
  /\ sc' = [sc EXCEPT ![t].pc = "done", ![t].ret = None]
  /\ command_lock' = NoThread
  /\ UNCHANGED <<since_last, ch_running, cmd_socket, ping_thread, ping_pc, stop_pc>>
  /\ UNCHANGED <<ctl_vars, net_vars, ncalls, drone_vars, status_vars, video_vars>>

\* _ping_loop: `while self._running:`
PingCheck(p) ==
  /\ ping_pc[p] = "check"
  /\ ping_pc' = [ping_pc EXCEPT ![p] = IF ch_running THEN "acquire" ELSE "exited"]
  /\ UNCHANGED <<command_lock, since_last, ch_running, cmd_socket, ping_thread, sc, stop_pc>>
  /\ UNCHANGED <<ctl_vars, net_vars, ncalls, drone_vars, status_vars, video_vars>>

\* _ping_loop: `with self._command_lock:` entered.
PingAcquire(p) ==
  /\ ping_pc[p] = "acquire"
  /\ CanAcquire(p)
  /\ command_lock' = p
  /\ ping_pc' = [ping_pc EXCEPT ![p] = "locked"]
  /\ UNCHANGED <<since_last, ch_running, cmd_socket, ping_thread, sc, stop_pc>>
  /\ UNCHANGED <<ctl_vars, net_vars, ncalls, drone_vars, status_vars, video_vars>>

\* _ping_loop: the idle test, made while holding the lock; when the channel
\* has been idle for the interval, send_command("command") is called from
\* inside the locked region.
PingTest(p) ==
  /\ ping_pc[p] = "locked"
  /\ IF since_last >= PingInterval
       THEN /\ sc' = [sc EXCEPT ![p] = EnterFrame("command", DefaultRetries)]
            /\ ping_pc' = [ping_pc EXCEPT ![p] = "call"]
       ELSE /\ ping_pc' = [ping_pc EXCEPT ![p] = "release"]
            /\ UNCHANGED sc
  /\ UNCHANGED <<command_lock, since_last, ch_running, cmd_socket, ping_thread, stop_pc>>
  /\ UNCHANGED <<ctl_vars, net_vars, ncalls, drone_vars, status_vars, video_vars>>

\* _ping_loop: the locked region is left (after the test, or after the
\* keep-alive call has returned), then time.sleep(1) and the next round.
PingRelease(p) ==
  /\ ping_pc[p] = "release" \/ (ping_pc[p] = "call" /\ sc[p].pc = "done")
  /\ command_lock' = NoThread
  /\ ping_pc' = [ping_pc EXCEPT ![p] = "check"]
  /\ UNCHANGED <<since_last, ch_running, cmd_socket, ping_thread, sc, stop_pc>>
  /\ UNCHANGED <<ctl_vars, net_vars, ncalls, drone_vars, status_vars, video_vars>>

\* Time passes: time.time() grows while _last_command_time stays.
Tick ==
  /\ since_last < PingInterval
  /\ since_last' = Min(since_last + TickSeconds, PingInterval)
  /\ UNCHANGED <<command_lock, ch_running, cmd_socket, ping_thread, ping_pc, sc, stop_pc>>
  /\ UNCHANGED <<ctl_vars, net_vars, ncalls, drone_vars, status_vars, video_vars>>

\* ================================================================ the vehicle
\* The vehicle answers the oldest command it holds with one datagram.
DroneReply ==
  /\ pending # <<>>
  /\ Len(rxbuf) < MaxNet
  /\ \E r \in RepliesTo(Head(pending)) :
       rxbuf' = Append(rxbuf, [text |-> r, cmd |-> Head(pending)])
  /\ pending' = Tail(pending)
  /\ UNCHANGED <<ctl_vars, ch_vars, ncalls, drone_vars, status_vars, video_vars>>

\* A command datagram, or the reply to it, is lost.
DroneDrop ==
  /\ pending # <<>>
  /\ pending' = Tail(pending)
  /\ UNCHANGED <<ctl_vars, ch_vars, rxbuf, ncalls, drone_vars, status_vars, video_vars>>

\* ============================================================ TelloController
\* Faulty variant: the comparison the wrong way round.
AboveMin_Inverted(h) == h < MIN_ALTITUDE

\* self.get_height() > self.MIN_ALTITUDE
AboveMin(h) == h > MIN_ALTITUDE

\* The state a verified takeoff commits: FLYING, then FLYING_UNSTABLE when
\* the reply carried the IMU warning.
TakeoffState(response) ==
  IF HasImuWarning(response) THEN "FLYING_UNSTABLE" ELSE "FLYING"

\* takeoff: the replies that lead to the verification step.
TakeoffProvisional(response) ==
  response # None /\ (response = "ok" \/ HasImuWarning(response))

\* send_command has returned to the API call nm of caller t.
Returned(t, nm) == op[t].name = nm /\ op[t].pc = "wait" /\ sc[t].pc = "done"

\* An API call may start: the caller's last call has returned.
CanCall(t) == op[t].pc = "done" /\ ncalls[t] < MaxCalls

\* start: threading.Thread(target=self._ping_loop), a new thread per call.
NextPing ==
  LET fresh == {i \in 1..Len(PingOrder) : ping_pc[PingOrder[i]] = "unstarted"}
  IN  IF fresh = {} THEN NoThread
      ELSE PingOrder[CHOOSE i \in fresh : \A j \in fresh : i <= j]

\* No start() has been called yet on this handler. Spec, ChannelSpec and
\* MotionSpec follow sessions that start the handler once; SessionSpec
\* follows sessions that start it again.
NeverStarted == ping_thread = NoThread

\* connect: CommandHandler.start() (flag, timestamp, a new keep-alive thread)
\* and the SDK-entry command is handed to send_command.
ConnectCall(t) ==
  /\ CanCall(t)
  /\ NextPing # NoThread
  /\ ping_thread' = NextPing
  /\ ping_pc' = [ping_pc EXCEPT ![NextPing] = "check"]
  /\ ch_running' = TRUE
  /\ since_last' = 0
  /\ sc' = [sc EXCEPT ![t] = EnterFrame("command", DefaultRetries)]
  /\ op' = [op EXCEPT ![t] = NewOp("connect", "wait", state)]
  /\ ncalls' = [ncalls EXCEPT ![t] = @ + 1]
  /\ UNCHANGED <<state, altitude, running, status_thread, status_socket>>
  /\ UNCHANGED <<command_lock, cmd_socket, stop_pc, net_vars, drone_vars, status_vars, video_vars>>

\* connect: the response is in. "ok" sets _running and starts the telemetry
\* thread (a thread that was started before raises RuntimeError, caught by
\* `except Exception`); everything else is the error path.
ConnectReturn(t) ==
  /\ Returned(t, "connect")
  /\ IF sc[t].ret = "ok"
       THEN /\ running' = TRUE
            /\ IF status_thread = "unstarted"
                 THEN /\ status_thread' = "alive"
                      /\ state' = "CONNECTED"
                      /\ op' = [op EXCEPT ![t].pc = "done", ![t].ret = "True",
                                          ![t].response = sc[t].ret]
                 ELSE /\ state' = "ERROR"
                      /\ op' = [op EXCEPT ![t].pc = "done", ![t].ret = "False",
                                          ![t].response = sc[t].ret]
                      /\ UNCHANGED status_thread
       ELSE /\ state' = "ERROR"
            /\ op' = [op EXCEPT ![t].pc = "done", ![t].ret = "False",
                                ![t].response = sc[t].ret]
            /\ UNCHANGED <<running, status_thread>>
  /\ UNCHANGED <<altitude, status_socket, ch_vars, net_vars, ncalls, drone_vars, status_vars, video_vars>>

\* disconnect: _running = False, then join the telemetry thread.
DisconnectCall(t) ==
  /\ CanCall(t)
  /\ running' = FALSE
  /\ op' = [op EXCEPT ![t] = NewOp("disconnect", "join_status", state)]
  /\ sc' = [sc EXCEPT ![t] = IdleFrame]
  /\ ncalls' = [ncalls EXCEPT ![t] = @ + 1]
  /\ UNCHANGED <<state, altitude, status_thread, status_socket>>
  /\ UNCHANGED <<command_lock, since_last, ch_running, cmd_socket, ping_thread,
                 ping_pc, stop_pc, net_vars, drone_vars, status_vars, video_vars>>

\* disconnect: the telemetry thread is not alive (any more); _video.stop()
\* (flag, join of the capture thread, release, DISCONNECTED);
\* CommandHandler.stop() clears its flag and joins the keep-alive thread.
DisconnectStop(t) ==
  /\ op[t].name = "disconnect" /\ op[t].pc = "join_status"
  /\ status_thread # "alive"
  /\ ~VThreadAlive
  /\ v_running' = FALSE
  /\ VStopEffect
  /\ ch_running' = FALSE
  /\ op' = [op EXCEPT ![t].pc = "join_ping"]
  /\ UNCHANGED <<state, altitude, running, status_thread, status_socket>>
  /\ UNCHANGED <<command_lock, since_last, cmd_socket, ping_thread, ping_pc, sc, stop_pc>>
  /\ UNCHANGED <<net_vars, ncalls, drone_vars, status_vars>>
  /\ UNCHANGED <<v_thread, v_loop, v_counter, v_since, v_hist, v_call>>

\* stop: self._ping_thread and self._ping_thread.is_alive()
PingAlive ==
  IF ping_thread = NoThread THEN FALSE ELSE ping_pc[ping_thread] # "exited"

\* disconnect: the keep-alive thread has exited; both sockets are closed and
\* the state is DISCONNECTED.
DisconnectClose(t) ==
  /\ op[t].name = "disconnect" /\ op[t].pc = "join_ping"
  /\ ~PingAlive
  /\ cmd_socket' = "closed"
  /\ status_socket' = "closed"
  /\ state' = "DISCONNECTED"
  /\ op' = [op EXCEPT ![t].pc = "done", ![t].ret = "True"]
  /\ UNCHANGED <<altitude, running, status_thread>>
  /\ UNCHANGED <<command_lock, since_last, ch_running, ping_thread, ping_pc, sc, stop_pc>>
  /\ UNCHANGED <<net_vars, ncalls, drone_vars, status_vars, video_vars>>

\* _status_loop: a telemetry datagram sets the altitude.
StatusUpdate ==
  /\ status_thread = "alive"
  /\ running
  /\ status_socket = "open"
  /\ \E a \in Altitudes : altitude' = a
  /\ UNCHANGED <<state, running, status_thread, status_socket, op>>
  /\ UNCHANGED <<ch_vars, net_vars, ncalls, drone_vars, status_vars, video_vars>>

\* _status_loop: `while self._running:` finds the flag cleared.
StatusExit ==
  /\ status_thread = "alive"
  /\ ~running
  /\ status_thread' = "exited"
  /\ UNCHANGED <<state, altitude, running, status_socket, op>>
  /\ UNCHANGED <<ch_vars, net_vars, ncalls, drone_vars, status_vars, video_vars>>

\* takeoff: the state precondition; CommandError is not a TakeoffError, so
\* it leaves the call uncaught. Otherwise `takeoff` goes to send_command.
TakeoffCall(t) ==
  /\ CanCall(t)
  /\ IF state # "CONNECTED"
       THEN /\ op' = [op EXCEPT ![t] = [NewOp("takeoff", "done", state)
                                          EXCEPT !.ret = "CommandError"]]
            /\ sc' = [sc EXCEPT ![t] = IdleFrame]
       ELSE /\ op' = [op EXCEPT ![t] = NewOp("takeoff", "wait", state)]
            /\ sc' = [sc EXCEPT ![t] = EnterFrame("takeoff", DefaultRetries)]
  /\ ncalls' = [ncalls EXCEPT ![t] = @ + 1]
  /\ UNCHANGED <<state, altitude, running, status_thread, status_socket>>
  /\ UNCHANGED <<command_lock, since_last, ch_running, cmd_socket, ping_thread,
                 ping_pc, stop_pc, net_vars, drone_vars, status_vars, video_vars>>

\* takeoff: "ok" or the IMU warning came back; after time.sleep(2) the
\* verification reads the altitude; above the minimum it commits the flying
\* state and returns True, otherwise it raises TakeoffError.
TakeoffVerify(t) ==
  /\ Returned(t, "takeoff")
  /\ TakeoffProvisional(sc[t].ret)
  /\ IF AboveMin(altitude)
       THEN /\ state' = TakeoffState(sc[t].ret)
            /\ op' = [op EXCEPT ![t].response = sc[t].ret, ![t].h1 = altitude,
                                ![t].pc = "done", ![t].ret = "True"]
       ELSE /\ op' = [op EXCEPT ![t].response = sc[t].ret, ![t].h1 = altitude,
                                ![t].pc = "handler"]
            /\ UNCHANGED state
  /\ UNCHANGED <<altitude, running, status_thread, status_socket>>
  /\ UNCHANGED <<ch_vars, net_vars, ncalls, drone_vars, status_vars, video_vars>>

\* takeoff: TakeoffError was raised (no response, an unexpected response, or
\* the verification failed).
TakeoffRaised(t) ==
  \/ op[t].name = "takeoff" /\ op[t].pc = "handler"
  \/ Returned(t, "takeoff") /\ ~TakeoffProvisional(sc[t].ret)

\* takeoff: `except TakeoffError` reads the altitude again; above the minimum
\* the state is FLYING and the call returns True, otherwise False.
TakeoffHandler(t) ==
  /\ TakeoffRaised(t)
  /\ IF AboveMin(altitude)
       THEN /\ state' = "FLYING"
            /\ op' = [op EXCEPT ![t].response = sc[t].ret, ![t].h2 = altitude,
                                ![t].pc = "done", ![t].ret = "True"]
       ELSE /\ op' = [op EXCEPT ![t].response = sc[t].ret, ![t].h2 = altitude,
                                ![t].pc = "done", ![t].ret = "False"]
            /\ UNCHANGED state
  /\ UNCHANGED <<altitude, running, status_thread, status_socket>>
  /\ UNCHANGED <<ch_vars, net_vars, ncalls, drone_vars, status_vars, video_vars>>

\* land: `land` goes to send_command, in whatever state the controller is.
LandCall(t) ==
  /\ CanCall(t)
  /\ op' = [op EXCEPT ![t] = NewOp("land", "wait", state)]
  /\ sc' = [sc EXCEPT ![t] = EnterFrame("land", DefaultRetries)]
  /\ ncalls' = [ncalls EXCEPT ![t] = @ + 1]
  /\ UNCHANGED <<state, altitude, running, status_thread, status_socket>>
  /\ UNCHANGED <<command_lock, since_last, ch_running, cmd_socket, ping_thread,
                 ping_pc, stop_pc, net_vars, drone_vars, status_vars, video_vars>>

\* land: "ok" came back; after time.sleep(3) the verification reads the
\* altitude; at or below the minimum it commits LANDED and returns True,
\* otherwise it returns False.
LandVerify(t) ==
  /\ Returned(t, "land")
  /\ sc[t].ret = "ok"
  /\ IF ~AboveMin(altitude)
       THEN /\ state' = "LANDED"
            /\ op' = [op EXCEPT ![t].response = sc[t].ret, ![t].h1 = altitude,
                                ![t].pc = "done", ![t].ret = "True"]
       ELSE /\ op' = [op EXCEPT ![t].response = sc[t].ret, ![t].h1 = altitude,
                                ![t].pc = "done", ![t].ret = "False"]
            /\ UNCHANGED state
  /\ UNCHANGED <<altitude, running, status_thread, status_socket>>
  /\ UNCHANGED <<ch_vars, net_vars, ncalls, drone_vars, status_vars, video_vars>>

\* land: LandingError was raised (no response, the IMU warning, or any other
\* text); `except LandingError` reads the altitude; at or below the minimum
\* the state is LANDED and the call returns True, otherwise False.
LandHandler(t) ==
  /\ Returned(t, "land")
  /\ sc[t].ret # "ok"
  /\ IF ~AboveMin(altitude)
       THEN /\ state' = "LANDED"
            /\ op' = [op EXCEPT ![t].response = sc[t].ret, ![t].h2 = altitude,
                                ![t].pc = "done", ![t].ret = "True"]
       ELSE /\ op' = [op EXCEPT ![t].response = sc[t].ret, ![t].h2 = altitude,
                                ![t].pc = "done", ![t].ret = "False"]
            /\ UNCHANGED state
  /\ UNCHANGED <<altitude, running, status_thread, status_socket>>
  /\ UNCHANGED <<ch_vars, net_vars, ncalls, drone_vars, status_vars, video_vars>>

\* ------------------------------------------------------------ specification
\* tello_lib as TelloController drives it: the pilot's API calls, the
\* keep-alive and telemetry threads, the clock and the vehicle.
LibNext ==
  \/ \E t \in {Pilot} \cup Pings :
       SCAcquire(t) \/ SCSend(t) \/ SCRecv(t) \/ SCGiveUp(t)
  \/ \E p \in Pings : PingCheck(p) \/ PingAcquire(p) \/ PingTest(p) \/ PingRelease(p)
  \/ Tick
  \/ DroneReply
  \/ DroneDrop
  \/ (NeverStarted /\ ConnectCall(Pilot)) \/ ConnectReturn(Pilot)
  \/ DisconnectCall(Pilot) \/ DisconnectStop(Pilot) \/ DisconnectClose(Pilot)
  \/ TakeoffCall(Pilot) \/ TakeoffVerify(Pilot) \/ TakeoffHandler(Pilot)
  \/ LandCall(Pilot) \/ LandVerify(Pilot) \/ LandHandler(Pilot)
  \/ StatusUpdate
  \/ StatusExit

Spec == Init /\ [][LibNext]_vars

\* ------------------------------------------------- CommandHandler on its own
\* send_command calls made on the handler directly so far.
DirectCalls == ncalls["u1"] + ncalls["u2"]

\* A thread calls send_command(command, retries=n) on the handler, once its
\* previous call has returned.
DirectCall(t) ==
  /\ sc[t].pc \in {"idle", "done"}
  /\ DirectCalls < MaxDirect
  /\ \E n \in 1..MaxRetries :
       sc' = [sc EXCEPT ![t] = EnterFrame(DirectCommand[t], n)]
  /\ ncalls' = [ncalls EXCEPT ![t] = @ + 1]
  /\ UNCHANGED <<command_lock, since_last, ch_running, cmd_socket, ping_thread,
                 ping_pc, stop_pc>>
  /\ UNCHANGED <<ctl_vars, net_vars, drone_vars, status_vars, video_vars>>

\* start(): the flag, the timestamp and a new keep-alive thread.
HandlerStart ==
  /\ NextPing # NoThread
  /\ stop_pc = "idle"
  /\ ch_running' = TRUE
  /\ since_last' = 0
  /\ ping_thread' = NextPing
  /\ ping_pc' = [ping_pc EXCEPT ![NextPing] = "check"]
  /\ UNCHANGED <<command_lock, cmd_socket, sc, stop_pc>>
  /\ UNCHANGED <<ctl_vars, net_vars, ncalls, drone_vars, status_vars, video_vars>>

\* stop(): the flag is cleared, then the keep-alive thread, if there is one
\* alive, is joined.
HandlerStop ==
  /\ stop_pc = "idle"
  /\ ch_running' = FALSE
  /\ stop_pc' = "join"
  /\ UNCHANGED <<command_lock, since_last, cmd_socket, ping_thread, ping_pc, sc>>
  /\ UNCHANGED <<ctl_vars, net_vars, ncalls, drone_vars, status_vars, video_vars>>

\* stop(): the keep-alive thread has exited; the socket is closed.
HandlerClose ==
  /\ stop_pc = "join"
  /\ ~PingAlive
  /\ cmd_socket' = "closed"
  /\ stop_pc' = "done"
  /\ UNCHANGED <<command_lock, since_last, ch_running, ping_thread, ping_pc, sc>>
  /\ UNCHANGED <<ctl_vars, net_vars, ncalls, drone_vars, status_vars, video_vars>>

ChannelNext ==
  \/ \E t \in Threads : SCAcquire(t) \/ SCSend(t) \/ SCRecv(t) \/ SCGiveUp(t)
  \/ \E p \in Pings : PingCheck(p) \/ PingAcquire(p) \/ PingTest(p) \/ PingRelease(p)
  \/ \E t \in Callers : DirectCall(t)
  \/ (NeverStarted /\ HandlerStart)
  \/ HandlerStop
  \/ HandlerClose
  \/ Tick
  \/ DroneReply
  \/ DroneDrop

ChannelSpec == Init /\ [][ChannelNext]_vars

\* ==================================================================== drone.py
\* Reply texts as character sequences, decoded and stripped.
OK == <<"o", "k">>
DReplies == {OK, <<"e", "r", "r", "o", "r">>, <<"1", "d", "m">>, <<"5", "0">>}

Digits == {"0", "1", "2", "3", "4", "5", "6", "7", "8", "9"}

DigitVal(c) ==
  CASE c = "0" -> 0 [] c = "1" -> 1 [] c = "2" -> 2 [] c = "3" -> 3
    [] c = "4" -> 4 [] c = "5" -> 5 [] c = "6" -> 6 [] c = "7" -> 7
    [] c = "8" -> 8 [] c = "9" -> 9

\* ''.join(c for c in height_str if c.isdigit() or c == '.')
RECURSIVE NumChars(_)
NumChars(str) ==
  IF str = <<>> THEN <<>>
  ELSE IF Head(str) \in Digits \cup {"."}
         THEN <<Head(str)>> \o NumChars(Tail(str))
         ELSE NumChars(Tail(str))

\* 'dm' in height_str
RECURSIVE HasDm(_)
HasDm(str) ==
  IF Len(str) < 2 THEN FALSE
  ELSE (str[1] = "d" /\ str[2] = "m") \/ HasDm(Tail(str))

\* The value of a run of digits.
RECURSIVE DigitsVal(_)
DigitsVal(ds) ==
  IF ds = <<>> THEN 0
  ELSE DigitsVal(SubSeq(ds, 1, Len(ds) - 1)) * 10 + DigitVal(ds[Len(ds)])

\* The places of the decimal points in a numeral.
Dots(num) == {i \in 1..Len(num) : num[i] = "."}

\* float(num) is defined for digits with at most one point and at least one
\* digit; everything else raises ValueError.
IsFloat(num) ==
  /\ Cardinality(Dots(num)) <= 1
  /\ \E i \in 1..Len(num) : num[i] \in Digits

\* int(float(num) * scale) for scale 1 or 10: the integer part, and for scale
\* 10 the first fractional digit as the units.
ScaledInt_Unscaled(num, scale) ==
  DigitsVal(SubSeq(num, 1, (IF Dots(num) = {} THEN Len(num) + 1
                            ELSE CHOOSE i \in Dots(num) : TRUE) - 1))
ScaledInt(num, scale) ==
  LET dot == IF Dots(num) = {} THEN Len(num) + 1 ELSE CHOOSE i \in Dots(num) : TRUE
      whole == DigitsVal(SubSeq(num, 1, dot - 1))
      frac == SubSeq(num, dot + 1, Len(num))
  IN  IF scale = 10
        THEN whole * 10 + (IF frac = <<>> THEN 0 ELSE DigitVal(frac[1]))
        ELSE whole

\* _parse_height: centimetres, decimetres times ten, 0 when float() raises.
ParseHeight(str) ==
  LET num == NumChars(str)
  IN  IF ~IsFloat(num) THEN 0
      ELSE IF HasDm(str) THEN ScaledInt(num, 10) ELSE ScaledInt(num, 1)

\* _is_flying: self._parse_height(height_str) > 10
IsFlying(str) == ParseHeight(str) > 10

\* _send_command is entered by the API call in progress.
DCall(cmd) == d_sc' = DEnterFrame(cmd)

\* The attempt failed: the next attempt, or CommandError after the last.
DNextAttempt(f) ==
  IF f.attempt + 1 < DRetries
    THEN [f EXCEPT !.attempt = @ + 1, !.pc = "send"]
    ELSE [f EXCEPT !.attempt = @ + 1, !.pc = "done", !.raised = TRUE]

\* A datagram is put on the command socket.
DSendTo(text) ==
  d_pending' = IF Len(d_pending) < MaxNet THEN Append(d_pending, text)
               ELSE d_pending

\* _send_command: sendto(command).
DSCSend ==
  /\ d_sc.pc = "send"
  /\ DSendTo(d_sc.command)
  /\ d_sc' = [d_sc EXCEPT !.pc = "recv", !.sent = @ + 1]
  /\ d_op' = [d_op EXCEPT !.sent = @ + 1]
  /\ UNCHANGED <<d_state, d_thread, d_running, d_rxbuf, d_ncalls, lib_vars, status_vars, video_vars>>

\* _send_command: recvfrom. A reply is returned; on a timeout `takeoff` and
\* `land` send the `speed?` probe, other commands go to the next attempt.
DSCRecv ==
  /\ d_sc.pc = "recv"
  /\ IF d_rxbuf # <<>>
       THEN /\ d_sc' = [d_sc EXCEPT !.pc = "done", !.ret = Head(d_rxbuf).text,
                                    !.got = TRUE]
            /\ d_rxbuf' = Tail(d_rxbuf)
            /\ UNCHANGED <<d_pending, d_op>>
       ELSE IF d_sc.command \in {"takeoff", "land"}
              THEN /\ DSendTo("speed?")
                   /\ d_sc' = [d_sc EXCEPT !.pc = "probe", !.sent = @ + 1]
                   /\ d_op' = [d_op EXCEPT !.sent = @ + 1]
                   /\ UNCHANGED d_rxbuf
              ELSE /\ d_sc' = DNextAttempt(d_sc)
                   /\ UNCHANGED <<d_pending, d_rxbuf, d_op>>
  /\ UNCHANGED <<d_state, d_thread, d_running, d_ncalls, lib_vars, status_vars, video_vars>>

\* _send_command: recvfrom after the probe. Any datagram makes `takeoff`
\* succeed: the state is FLYING and "ok" is returned; for `land`, and on a
\* timeout, the attempt has failed.
DSCProbe ==
  /\ d_sc.pc = "probe"
  /\ IF d_rxbuf # <<>>
       THEN /\ d_rxbuf' = Tail(d_rxbuf)
            /\ IF d_sc.command = "takeoff"
                 THEN /\ d_state' = "FLYING"
                      /\ d_sc' = [d_sc EXCEPT !.pc = "done", !.ret = OK]
                 ELSE /\ d_sc' = DNextAttempt(d_sc)
                      /\ UNCHANGED d_state
       ELSE /\ d_sc' = DNextAttempt(d_sc)
            /\ UNCHANGED <<d_rxbuf, d_state>>
  /\ UNCHANGED <<d_thread, d_running, d_op, d_pending, d_ncalls, lib_vars, status_vars, video_vars>>

\* The vehicle answers the oldest command it holds with one datagram.
DDroneReply ==
  /\ d_pending # <<>>
  /\ Len(d_rxbuf) < MaxNet
  /\ \E r \in DReplies :
       d_rxbuf' = Append(d_rxbuf, [text |-> r, cmd |-> Head(d_pending)])
  /\ d_pending' = Tail(d_pending)
  /\ UNCHANGED <<d_state, d_thread, d_running, d_op, d_sc, d_ncalls, lib_vars, status_vars, video_vars>>

\* A command datagram, or the reply to it, is lost.
DDroneDrop ==
  /\ d_pending # <<>>
  /\ d_pending' = Tail(d_pending)
  /\ UNCHANGED <<d_state, d_thread, d_running, d_op, d_sc, d_rxbuf, d_ncalls, lib_vars, status_vars, video_vars>>

DCanCall == d_op.pc = "done" /\ d_ncalls < MaxCalls

DReturned(nm, p) == d_op.name = nm /\ d_op.pc = p /\ d_sc.pc = "done"

\* connect: the SDK-entry command goes to _send_command.
DConnectCall ==
  /\ DCanCall
  /\ d_op' = DNewOp("connect", "wait", d_state)
  /\ DCall("command")
  /\ d_ncalls' = d_ncalls + 1
  /\ UNCHANGED <<d_state, d_thread, d_running, d_pending, d_rxbuf, lib_vars, status_vars, video_vars>>

\* connect: "ok" starts the telemetry thread (a second start raises) and sets
\* CONNECTED; any other reply and CommandError set ERROR.
DConnectReturn ==
  /\ DReturned("connect", "wait")
  /\ IF ~d_sc.raised /\ d_sc.ret = OK /\ d_thread = "unstarted"
       THEN /\ d_thread' = "alive"
            /\ d_state' = "CONNECTED"
            /\ d_op' = [d_op EXCEPT !.pc = "done", !.ret = "True"]
       ELSE /\ d_state' = "ERROR"
            /\ d_op' = [d_op EXCEPT !.pc = "done", !.ret = "False"]
            /\ UNCHANGED d_thread
  /\ d_running' = (d_running \/ (~d_sc.raised /\ d_sc.ret = OK))
  /\ UNCHANGED <<d_sc, d_pending, d_rxbuf, d_ncalls, lib_vars, status_vars, video_vars>>

\* takeoff: outside CONNECTED CommandError is raised inside the try, and
\* `except Exception` queries `height?`; in CONNECTED `takeoff` is sent.
DTakeoffCall ==
  /\ DCanCall
  /\ IF d_state # "CONNECTED"
       THEN /\ d_op' = DNewOp("takeoff", "handler", d_state)
            /\ DCall("height?")
       ELSE /\ d_op' = DNewOp("takeoff", "wait", d_state)
            /\ DCall("takeoff")
  /\ d_ncalls' = d_ncalls + 1
  /\ UNCHANGED <<d_state, d_thread, d_running, d_pending, d_rxbuf, lib_vars, status_vars, video_vars>>

\* takeoff: _send_command("takeoff") is over. "ok" goes on to the `height?`
\* verification, CommandError to the handler's `height?`, any other reply
\* returns False.
DTakeoffResponse ==
  /\ DReturned("takeoff", "wait")
  /\ IF d_sc.raised
       THEN /\ d_op' = [d_op EXCEPT !.pc = "handler"]
            /\ DCall("height?")
       ELSE IF d_sc.ret = OK
              THEN /\ d_op' = [d_op EXCEPT !.pc = "verify", !.acked = d_sc.got]
                   /\ DCall("height?")
              ELSE /\ d_op' = [d_op EXCEPT !.pc = "done", !.ret = "False"]
                   /\ UNCHANGED d_sc
  /\ UNCHANGED <<d_state, d_thread, d_running, d_pending, d_rxbuf, d_ncalls, lib_vars, status_vars, video_vars>>

\* takeoff: the verification query is over. A height above 10 cm, and also a
\* failed query, set FLYING and return True; a lower height returns False.
DTakeoffVerify ==
  /\ DReturned("takeoff", "verify")
  /\ IF d_sc.raised
       THEN /\ d_state' = "FLYING"
            /\ d_op' = [d_op EXCEPT !.pc = "done", !.ret = "True"]
       ELSE IF d_sc.ret # <<>> /\ IsFlying(d_sc.ret)
              THEN /\ d_state' = "FLYING"
                   /\ d_op' = [d_op EXCEPT !.pc = "done", !.ret = "True",
                                           !.height = ParseHeight(d_sc.ret),
                                           !.via = "verify"]
              ELSE /\ d_op' = [d_op EXCEPT !.pc = "done", !.ret = "False",
                                           !.height = ParseHeight(d_sc.ret),
                                           !.via = "verify"]
                   /\ UNCHANGED d_state
  /\ UNCHANGED <<d_thread, d_running, d_sc, d_pending, d_rxbuf, d_ncalls, lib_vars, status_vars, video_vars>>

\* takeoff: the handler's query is over. A height above 10 cm sets FLYING and
\* returns True; everything else returns False.
DTakeoffHandler ==
  /\ DReturned("takeoff", "handler")
  /\ IF ~d_sc.raised /\ d_sc.ret # <<>> /\ IsFlying(d_sc.ret)
       THEN /\ d_state' = "FLYING"
            /\ d_op' = [d_op EXCEPT !.pc = "done", !.ret = "True",
                                    !.height = ParseHeight(d_sc.ret),
                                    !.via = "handler"]
       ELSE /\ d_op' = [d_op EXCEPT !.pc = "done", !.ret = "False",
                                    !.height = IF d_sc.raised THEN -1
                                               ELSE ParseHeight(d_sc.ret),
                                    !.via = "handler"]
            /\ UNCHANGED d_state
  /\ UNCHANGED <<d_thread, d_running, d_sc, d_pending, d_rxbuf, d_ncalls, lib_vars, status_vars, video_vars>>

\* land: outside FLYING CommandError is raised and caught: False. In FLYING
\* `land` is sent.
DLandCall ==
  /\ DCanCall
  /\ IF d_state # "FLYING"
       THEN /\ d_op' = [DNewOp("land", "done", d_state) EXCEPT !.ret = "False"]
            /\ d_sc' = DIdleFrame
       ELSE /\ d_op' = DNewOp("land", "wait", d_state)
            /\ DCall("land")
  /\ d_ncalls' = d_ncalls + 1
  /\ UNCHANGED <<d_state, d_thread, d_running, d_pending, d_rxbuf, lib_vars, status_vars, video_vars>>

\* land: _send_command("land") is over. "ok" sets LANDED and sends
\* `streamoff`; any other reply and CommandError return False.
DLandResponse ==
  /\ DReturned("land", "wait")
  /\ IF ~d_sc.raised /\ d_sc.ret = OK
       THEN /\ d_state' = "LANDED"
            /\ d_op' = [d_op EXCEPT !.pc = "streamoff", !.acked = d_sc.got]
            /\ DCall("streamoff")
       ELSE /\ d_op' = [d_op EXCEPT !.pc = "done", !.ret = "False"]
            /\ UNCHANGED <<d_state, d_sc>>
  /\ UNCHANGED <<d_thread, d_running, d_pending, d_rxbuf, d_ncalls, lib_vars, status_vars, video_vars>>

\* land: `streamoff` is over: True, or False when it raised CommandError.
DLandStreamoff ==
  /\ DReturned("land", "streamoff")
  /\ d_op' = [d_op EXCEPT !.pc = "done",
                          !.ret = IF d_sc.raised THEN "False" ELSE "True"]
  /\ UNCHANGED <<d_state, d_thread, d_running, d_sc, d_pending, d_rxbuf, d_ncalls, lib_vars, status_vars, video_vars>>

DroneNext ==
  \/ DSCSend
  \/ DSCRecv
  \/ DSCProbe
  \/ DDroneReply
  \/ DDroneDrop
  \/ DConnectCall
  \/ DConnectReturn
  \/ DTakeoffCall
  \/ DTakeoffResponse
  \/ DTakeoffVerify
  \/ DTakeoffHandler
  \/ DLandCall
  \/ DLandResponse
  \/ DLandStreamoff

DroneSpec == Init /\ [][DroneNext]_vars

\* The thread scheduler runs every thread that can take a step, the vehicle
\* and the clock go on, and a thread waiting for the lock gets it when the
\* lock is free again and again.
FairChannelSpec ==
  /\ ChannelSpec
  /\ \A t \in Threads :
       /\ SF_vars(SCAcquire(t))
       /\ WF_vars(SCSend(t))
       /\ WF_vars(SCRecv(t))
       /\ WF_vars(SCGiveUp(t))
  /\ \A p \in Pings :
       /\ WF_vars(PingCheck(p))
       /\ SF_vars(PingAcquire(p))
       /\ WF_vars(PingTest(p))
       /\ WF_vars(PingRelease(p))
  /\ WF_vars(HandlerClose)
  /\ WF_vars(Tick)

\* ===================================================================== claims
\* A thread is inside the send/receive/retry cycle of send_command.
InCycle(t) == sc[t].pc \in {"loop", "recv"}

\* A send_command call is in progress.
InCall(t) == sc[t].pc \in {"lock", "loop", "recv"}

\* C1: at most one thread is inside a send/receive/retry cycle on the command
\* socket at a time, and it is the thread that holds the lock; while the
\* keep-alive loop is in its locked region no caller is inside a cycle.
C1_OneCycleAtATime ==
  /\ \A t, u \in Threads : InCycle(t) /\ InCycle(u) => t = u
  /\ \A t \in Threads : InCycle(t) => command_lock = t
  /\ \A p \in Pings :
       ping_pc[p] \in {"locked", "release"} =>
         \A t \in Threads : ~InCycle(t)

\* C1: a caller waits for the lock while another caller's request is out.
C1_Witness ==
  \E t, u \in Callers :
    /\ t # u
    /\ sc[t].pc = "recv"
    /\ sc[t].sent = 1
    /\ sc[u].pc = "lock"

\* C2: every call of send_command eventually returns, the calls the
\* keep-alive loop makes and the calls made after an idle interval included.
C2_EveryCallReturns ==
  \A t \in Threads : InCall(t) ~> (sc[t].pc = "done")

\* C3: when the keep-alive loop has found the channel idle for the interval,
\* it sends one `command` datagram, completes the cycle and goes on polling.
C3_KeepAliveCompletes ==
  \A p \in Pings :
    (ping_pc[p] = "call") ~>
      (ping_pc[p] = "check" /\ sc[p].pc = "done" /\ sc[p].sent >= 1)

\* C4 as stated: a call that got no reply has sent exactly `retries`
\* datagrams, all with the text of the call, and returned None.
C4_ExactlyNDatagrams ==
  \A t \in Threads :
    sc[t].pc = "done" /\ ~sc[t].got =>
      /\ sc[t].ret = None
      /\ sc[t].sent = sc[t].retries
      /\ sc[t].texts = {sc[t].command}

\* C4, amended: a call that got no reply has made exactly `retries` attempts
\* and returned None; every datagram it sent carries the text of the call;
\* it sent at most `retries` datagrams, and exactly `retries` when the socket
\* was open throughout the call (a socket once closed stays closed).
C4_ExactlyNAttempts ==
  \A t \in Threads :
    sc[t].pc = "done" /\ ~sc[t].got =>
      /\ sc[t].ret = None
      /\ sc[t].attempt = sc[t].retries
      /\ sc[t].sent <= sc[t].retries
      /\ sc[t].texts \subseteq {sc[t].command}
      /\ cmd_socket = "open" =>
           sc[t].sent = sc[t].retries /\ sc[t].texts = {sc[t].command}

\* C4: one call has sent all its datagrams without a reply, another has
\* failed on the closed socket with fewer.
C4_Witness ==
  \E t, u \in Callers :
    /\ sc[t].pc = "done" /\ ~sc[t].got
    /\ sc[t].retries = MaxRetries /\ sc[t].sent = MaxRetries
    /\ sc[u].pc = "done" /\ ~sc[u].got
    /\ sc[u].sent < sc[u].retries

\* C5: a call that receives a reply on its k-th attempt returns the text of
\* that datagram, has then sent exactly k datagrams, k <= retries, and sends
\* nothing once it has returned.
C5_ReplyOnAttemptK ==
  [][\A t \in Threads :
       /\ sc[t].pc = "recv" /\ sc'[t].pc = "done" =>
            /\ sc'[t].got
            /\ sc'[t].ret = Head(rxbuf).text
            /\ sc'[t].sent = sc[t].attempt + 1
            /\ sc'[t].sent = sc[t].sent
            /\ sc'[t].sent <= sc[t].retries
       /\ sc[t].pc = "done" /\ sc'[t].pc = "done" =>
            sc'[t].sent = sc[t].sent /\ sc'[t].ret = sc[t].ret]_vars

\* C5: the first reply was lost and the call returned the second, an error.
C5_Witness ==
  \E t \in Callers :
    /\ sc[t].pc = "done" /\ sc[t].got
    /\ sc[t].attempt = 1 /\ sc[t].sent = 2
    /\ sc[t].ret = "error"

FlyingStates == {"FLYING", "FLYING_UNSTABLE"}

\* The pilot's takeoff() call has returned.
TakeoffDone == op[Pilot].name = "takeoff" /\ op[Pilot].pc = "done"

\* C6: a takeoff() whose reply was "ok" and whose verification step read an
\* altitude of at most 10 cm returns failure and does not leave the state
\* flying, in tello_lib and in drone.py.
C6_FailedVerificationFails ==
  /\ TakeoffDone /\ op[Pilot].response = "ok"
       /\ op[Pilot].h1 >= 0 /\ op[Pilot].h1 <= MIN_ALTITUDE
     => op[Pilot].ret = "False" /\ state \notin FlyingStates
  /\ d_op.name = "takeoff" /\ d_op.pc = "done" /\ d_op.acked
       /\ d_op.via = "verify" /\ d_op.height <= MIN_ALTITUDE
     => d_op.ret = "False" /\ d_state \notin FlyingStates

\* C7: a takeoff() called in CONNECTED whose `takeoff` got no reply in all
\* its attempts, and whose recheck read an altitude above 10 cm, returns
\* success with the state FLYING.
C7_RecheckAfterTimeout ==
  TakeoffDone /\ op[Pilot].before = "CONNECTED" /\ op[Pilot].response = None
    /\ op[Pilot].h2 > MIN_ALTITUDE
  => op[Pilot].ret = "True" /\ state = "FLYING"

\* C7: all three `takeoff` datagrams went unanswered, the recheck read 50 cm.
C7_Witness ==
  /\ TakeoffDone
  /\ op[Pilot].before = "CONNECTED"
  /\ op[Pilot].response = None
  /\ sc[Pilot].command = "takeoff" /\ ~sc[Pilot].got
  /\ sc[Pilot].sent = DefaultRetries
  /\ op[Pilot].h2 = 50
  /\ op[Pilot].ret = "True"
  /\ state = "FLYING"

\* C8: a takeoff() called in a state other than CONNECTED fails, has sent no
\* datagram on the command socket and leaves the state as it was, in
\* tello_lib and in drone.py.
C8_PreconditionFailsFast ==
  /\ TakeoffDone /\ op[Pilot].before # "CONNECTED"
     => /\ op[Pilot].ret = "CommandError"
        /\ sc[Pilot].sent = 0
        /\ state = op[Pilot].before
  /\ d_op.name = "takeoff" /\ d_op.pc = "done" /\ d_op.before # "CONNECTED"
     => /\ d_op.ret \in {"False", "CommandError"}
        /\ d_op.sent = 0
        /\ d_state = d_op.before

\* C9: a takeoff() that returns success leaves the state FLYING_UNSTABLE when
\* the reply carried the IMU warning and FLYING otherwise, and the state
\* becomes FLYING_UNSTABLE in no other way.
C9_UnstableIffImuWarning ==
  [][/\ op[Pilot].pc # "done" /\ op'[Pilot].pc = "done"
          /\ op'[Pilot].name = "takeoff" /\ op'[Pilot].ret = "True"
        => state' = IF HasImuWarning(op'[Pilot].response)
                      THEN "FLYING_UNSTABLE" ELSE "FLYING"
     /\ state # "FLYING_UNSTABLE" /\ state' = "FLYING_UNSTABLE"
        => /\ op'[Pilot].name = "takeoff" /\ op'[Pilot].pc = "done"
           /\ op'[Pilot].ret = "True"
           /\ HasImuWarning(op'[Pilot].response)]_vars

\* C10: the state becomes LANDED only in a land() call that has sent `land`
\* and then read an altitude of at most 10 cm, in tello_lib and in drone.py.
C10_LandedOnlyAfterAltitude ==
  [][/\ state # "LANDED" /\ state' = "LANDED"
        => /\ op'[Pilot].name = "land"
           /\ sc'[Pilot].command = "land" /\ sc'[Pilot].sent >= 1
           /\ \E h \in {op'[Pilot].h1, op'[Pilot].h2} :
                h >= 0 /\ h <= MIN_ALTITUDE
     /\ d_state # "LANDED" /\ d_state' = "LANDED"
        => /\ d_op'.name = "land"
           /\ d_op'.sent >= 1
           /\ d_op'.height >= 0 /\ d_op'.height <= MIN_ALTITUDE]_vars

\* The pilot's land() call has returned.
LandDone == op[Pilot].name = "land" /\ op[Pilot].pc = "done"

\* C11: a land() whose reply carried the IMU warning returns failure and does
\* not make the state LANDED.
C11_ImuWarningFailsLanding ==
  LandDone /\ HasImuWarning(op[Pilot].response)
  => /\ op[Pilot].ret = "False"
     /\ state = "LANDED" => op[Pilot].before = "LANDED"

\* The edges of the controller's state machine.
AllowedEdge(from, to) ==
  \/ from = "DISCONNECTED" /\ to = "CONNECTED"
  \/ from = "CONNECTED" /\ to \in FlyingStates
  \/ from \in FlyingStates /\ to = "LANDED"
  \/ to = "ERROR"
  \/ to = "DISCONNECTED"

\* C13: the state changes only along the edges of the state machine; it does
\* not become LANDED unless it was FLYING or FLYING_UNSTABLE just before.
C13_OnlyAllowedEdges ==
  [][state' # state => AllowedEdge(state, state')]_vars

\* C14: once the state is ERROR it stays ERROR until disconnect() (or a new
\* connect()) changes it; no other call does.
C14_ErrorIsTerminal ==
  [][state = "ERROR" /\ state' # "ERROR"
       => op'[Pilot].name \in {"disconnect", "connect"}]_vars

\* The exceptions a call can end with.
Exceptions == {"CommandError", "ValueError", "AttributeError", "RuntimeError"}

\* C17: no public operation lets an exception escape: every call that has
\* ended has returned a value.
C17_NoExceptionEscapes ==
  op[Pilot].pc = "done" => op[Pilot].ret \notin Exceptions

\* ===================================== TelloController: movement and speed
\* Arguments the pilot passes, inside and outside each domain.
DirectionArgs == {"forward", "cw"}
DistanceArgs == {19, 20, 500, 501}
DegreeArgs == {0, 1, 360, 361}
SpeedArgs == {0, 1, 100, 101}

\* Faulty variant: the direction is not checked.
MoveArgsValid_AnyDirection(direction, distance) ==
  20 <= distance /\ distance <= 500

\* move: direction in ['up', 'down', 'left', 'right', 'forward', 'back'] and
\* 20 <= distance <= 500
MoveArgsValid(direction, distance) ==
  /\ direction \in {"up", "down", "left", "right", "forward", "back"}
  /\ 20 <= distance /\ distance <= 500

\* rotate: direction in ['cw', 'ccw'] and 1 <= degrees <= 360
RotateArgsValid(direction, degrees) ==
  /\ direction \in {"cw", "ccw"}
  /\ 1 <= degrees /\ degrees <= 360

\* set_speed: 1 <= speed <= 100
SpeedArgValid(s) == 1 <= s /\ s <= 100

\* f"{direction} {distance}", f"{direction} {degrees}", f"speed {speed}"
CommandText(word, n) == word \o " " \o ToString(n)

\* Faulty variant: the IMU warning accepted as it is for takeoff.
ReplyOk_OrImuWarning(response) == response = "ok" \/ HasImuWarning(response)

\* move, rotate, set_speed: response == "ok"
ReplyOk(response) == response = "ok"

\* The characters of a reply text.
Chars(r) ==
  CASE r = "ok" -> <<"o", "k">>
    [] r = "error" -> <<"e", "r", "r", "o", "r">>
    [] r = "10.0" -> <<"1", "0", ".", "0">>
    [] r = IMU_WARNING ->
         <<"e", "r", "r", "o", "r", " ", "N", "o", " ", "v", "a", "l", "i",
           "d", " ", "i", "m", "u">>

\* _parse_speed: int(float(digits and points of the reply)), 0 when float()
\* raises.
ParseSpeed(str) ==
  LET num == NumChars(str)
  IN  IF IsFloat(num) THEN ScaledInt(num, 1) ELSE 0

\* A movement or speed call may start.
MotionCanCall(t) == op[t].pc = "done" /\ ncalls[t] < MaxMotion

\* A call ends before its try block with an exception that escapes.
RaiseEarly(t, nm, exc, w, n) ==
  /\ op' = [op EXCEPT ![t] = [NewOp(nm, "done", state) EXCEPT
                                !.ret = exc, !.word = w, !.arg = n,
                                !.cached = speed]]
  /\ sc' = [sc EXCEPT ![t] = IdleFrame]

\* A call hands its command to send_command.
SendEarly(t, nm, text, w, n) ==
  /\ op' = [op EXCEPT ![t] = [NewOp(nm, "wait", state) EXCEPT
                                !.word = w, !.arg = n, !.cached = speed]]
  /\ sc' = [sc EXCEPT ![t] = EnterFrame(text, DefaultRetries)]

\* move: the argument checks raise ValueError outside the try; otherwise the
\* command goes to send_command.
MoveCall(t) ==
  /\ MotionCanCall(t)
  /\ \E direction \in DirectionArgs, distance \in DistanceArgs :
       IF MoveArgsValid(direction, distance)
         THEN SendEarly(t, "move", CommandText(direction, distance),
                        direction, distance)
         ELSE RaiseEarly(t, "move", "ValueError", direction, distance)
  /\ ncalls' = [ncalls EXCEPT ![t] = @ + 1]
  /\ UNCHANGED <<state, altitude, running, status_thread, status_socket>>
  /\ UNCHANGED <<command_lock, since_last, ch_running, cmd_socket, ping_thread,
                 ping_pc, stop_pc, net_vars, drone_vars, status_vars, video_vars>>

\* move: True for "ok"; None, the IMU warning and any other text raise
\* MovementError, which is caught: False.
MoveReturn(t) ==
  /\ Returned(t, "move")
  /\ op' = [op EXCEPT ![t].response = sc[t].ret, ![t].pc = "done",
                      ![t].ret = IF ReplyOk(sc[t].ret) THEN "True" ELSE "False"]
  /\ UNCHANGED <<state, altitude, running, status_thread, status_socket>>
  /\ UNCHANGED <<ch_vars, net_vars, ncalls, drone_vars, status_vars, video_vars>>

\* rotate: the argument checks raise ValueError outside the try; otherwise
\* the command goes to send_command.
RotateCall(t) ==
  /\ MotionCanCall(t)
  /\ \E direction \in DirectionArgs, degrees \in DegreeArgs :
       IF RotateArgsValid(direction, degrees)
         THEN SendEarly(t, "rotate", CommandText(direction, degrees),
                        direction, degrees)
         ELSE RaiseEarly(t, "rotate", "ValueError", direction, degrees)
  /\ ncalls' = [ncalls EXCEPT ![t] = @ + 1]
  /\ UNCHANGED <<state, altitude, running, status_thread, status_socket>>
  /\ UNCHANGED <<command_lock, since_last, ch_running, cmd_socket, ping_thread,
                 ping_pc, stop_pc, net_vars, drone_vars, status_vars, video_vars>>

\* rotate: True for "ok"; everything else raises RotationError: False.
RotateReturn(t) ==
  /\ Returned(t, "rotate")
  /\ op' = [op EXCEPT ![t].response = sc[t].ret, ![t].pc = "done",
                      ![t].ret = IF ReplyOk(sc[t].ret) THEN "True" ELSE "False"]
  /\ UNCHANGED <<state, altitude, running, status_thread, status_socket>>
  /\ UNCHANGED <<ch_vars, net_vars, ncalls, drone_vars, status_vars, video_vars>>

\* set_speed: the argument check raises ValueError outside the try;
\* otherwise the command goes to send_command.
SetSpeedCall(t) ==
  /\ MotionCanCall(t)
  /\ \E s \in SpeedArgs :
       IF SpeedArgValid(s)
         THEN SendEarly(t, "set_speed", CommandText("speed", s), "speed", s)
         ELSE RaiseEarly(t, "set_speed", "ValueError", "speed", s)
  /\ ncalls' = [ncalls EXCEPT ![t] = @ + 1]
  /\ UNCHANGED <<state, altitude, running, status_thread, status_socket>>
  /\ UNCHANGED <<command_lock, since_last, ch_running, cmd_socket, ping_thread,
                 ping_pc, stop_pc, net_vars, drone_vars, status_vars, video_vars>>

\* set_speed: "ok" stores the speed and returns True; everything else raises
\* SpeedCommandError: False.
SetSpeedReturn(t) ==
  /\ Returned(t, "set_speed")
  /\ IF ReplyOk(sc[t].ret)
       THEN /\ speed' = op[t].arg
            /\ op' = [op EXCEPT ![t].response = sc[t].ret, ![t].pc = "done",
                                ![t].ret = "True"]
       ELSE /\ op' = [op EXCEPT ![t].response = sc[t].ret, ![t].pc = "done",
                                ![t].ret = "False"]
            /\ UNCHANGED speed
  /\ UNCHANGED <<state, altitude, running, status_thread, status_socket>>
  /\ UNCHANGED <<ch_vars, net_vars, ncalls, drone_vars, telemetry_vars, video_vars>>

\* get_speed: `speed?` goes to send_command.
GetSpeedCall(t) ==
  /\ MotionCanCall(t)
  /\ SendEarly(t, "get_speed", "speed?", "speed?", 0)
  /\ ncalls' = [ncalls EXCEPT ![t] = @ + 1]
  /\ UNCHANGED <<state, altitude, running, status_thread, status_socket>>
  /\ UNCHANGED <<command_lock, since_last, ch_running, cmd_socket, ping_thread,
                 ping_pc, stop_pc, net_vars, drone_vars, status_vars, video_vars>>

\* get_speed: a reply is parsed by _parse_speed, which never returns None, so
\* the parsed number is stored and returned; without a reply the handler
\* returns self._status.speed, which raises AttributeError when no speed has
\* been stored.
GetSpeedReturn(t) ==
  /\ Returned(t, "get_speed")
  /\ IF sc[t].ret # None
       THEN /\ speed' = ParseSpeed(Chars(sc[t].ret))
            /\ op' = [op EXCEPT ![t].response = sc[t].ret, ![t].pc = "done",
                                ![t].ret = "value",
                                ![t].value = ParseSpeed(Chars(sc[t].ret))]
       ELSE /\ op' = [op EXCEPT ![t].response = sc[t].ret, ![t].pc = "done",
                                ![t].ret = IF speed = NoSpeed
                                             THEN "AttributeError" ELSE "value",
                                ![t].value = speed]
            /\ UNCHANGED speed
  /\ UNCHANGED <<state, altitude, running, status_thread, status_socket>>
  /\ UNCHANGED <<ch_vars, net_vars, ncalls, drone_vars, telemetry_vars, video_vars>>

\* connect() as one of the calls of the movement operations.
MotionConnect(t) == MotionCanCall(t) /\ NeverStarted /\ ConnectCall(t)

\* The pilot connects, moves and sets and reads the speed.
MotionNext ==
  \/ \E t \in {Pilot} \cup Pings :
       SCAcquire(t) \/ SCSend(t) \/ SCRecv(t) \/ SCGiveUp(t)
  \/ \E p \in Pings : PingCheck(p) \/ PingAcquire(p) \/ PingTest(p) \/ PingRelease(p)
  \/ Tick
  \/ DroneReply
  \/ DroneDrop
  \/ MotionConnect(Pilot) \/ ConnectReturn(Pilot)
  \/ MoveCall(Pilot) \/ MoveReturn(Pilot)
  \/ RotateCall(Pilot) \/ RotateReturn(Pilot)
  \/ SetSpeedCall(Pilot) \/ SetSpeedReturn(Pilot)
  \/ GetSpeedCall(Pilot) \/ GetSpeedReturn(Pilot)

MotionSpec == Init /\ [][MotionNext]_vars

\* The pilot's call of one of the operations has ended.
CallDone(names) == op[Pilot].pc = "done" /\ op[Pilot].name \in names

\* The arguments of the pilot's call lie in the operation's domain.
InDomain ==
  LET o == op[Pilot]
  IN  CASE o.name = "move" ->
             /\ o.word \in {"up", "down", "left", "right", "forward", "back"}
             /\ o.arg \in 20..500
        [] o.name = "rotate" -> o.word \in {"cw", "ccw"} /\ o.arg \in 1..360
        [] o.name = "set_speed" -> o.arg \in 1..100
        [] OTHER -> TRUE

\* C15: move, rotate and set_speed with an argument outside its domain end
\* with the argument error, have sent no datagram and leave the state and the
\* cached speed as they were.
C15_OutOfDomainSendsNothing ==
  CallDone({"move", "rotate", "set_speed"}) /\ ~InDomain
  => /\ op[Pilot].ret = "ValueError"
     /\ sc[Pilot].sent = 0 /\ sc[Pilot].pc = "idle"
     /\ state = op[Pilot].before
     /\ speed = op[Pilot].cached

\* C15: a connected pilot asked for a rotation of 361 degrees.
C15_Witness ==
  /\ CallDone({"rotate"})
  /\ op[Pilot].word = "cw" /\ op[Pilot].arg = 361
  /\ op[Pilot].ret = "ValueError"
  /\ state = "CONNECTED"

\* C16: move, rotate and set_speed with arguments in the domain return True
\* exactly when the reply is "ok" and False otherwise; the cached speed is
\* the requested one after a successful set_speed and is unchanged in every
\* other case; the state is unchanged.
C16_SuccessIffOk ==
  CallDone({"move", "rotate", "set_speed"}) /\ InDomain
  => /\ op[Pilot].ret = IF op[Pilot].response = "ok" THEN "True" ELSE "False"
     /\ state = op[Pilot].before
     /\ speed = IF op[Pilot].name = "set_speed" /\ op[Pilot].response = "ok"
                  THEN op[Pilot].arg ELSE op[Pilot].cached

\* C16: a connected pilot set the speed to 100 and the vehicle said ok.
C16_Witness ==
  /\ CallDone({"set_speed"})
  /\ op[Pilot].arg = 100 /\ op[Pilot].response = "ok"
  /\ op[Pilot].ret = "True"
  /\ speed = 100 /\ op[Pilot].cached = NoSpeed
  /\ state = "CONNECTED"

\* C18: a get_speed() whose query failed (no reply, or a reply that is not a
\* number) returns the speed cached on entry and leaves it unchanged.
C18_FallsBackToCachedSpeed ==
  CallDone({"get_speed"})
    /\ op[Pilot].response \in {None, "ok", "error", IMU_WARNING}
  => /\ op[Pilot].ret = "value"
     /\ op[Pilot].value = op[Pilot].cached
     /\ speed = op[Pilot].cached

\* ---------------------------------------------------------------------------
\* TelloController: sessions of connect() and disconnect() calls, in any
\* order, each connect() starting the handler anew.
\* ---------------------------------------------------------------------------

SessionNext ==
  \/ \E t \in {Pilot} \cup Pings :
       SCAcquire(t) \/ SCSend(t) \/ SCRecv(t) \/ SCGiveUp(t)
  \/ \E p \in Pings : PingCheck(p) \/ PingAcquire(p) \/ PingTest(p) \/ PingRelease(p)
  \/ Tick
  \/ DroneReply
  \/ DroneDrop
  \/ ConnectCall(Pilot) \/ ConnectReturn(Pilot)
  \/ DisconnectCall(Pilot) \/ DisconnectStop(Pilot) \/ DisconnectClose(Pilot)
  \/ StatusExit

SessionSpec == Init /\ [][SessionNext]_vars

\* Every thread that can take a step eventually takes it; a thread waiting
\* for the lock gets it if it is free again and again.
FairSessionSpec ==
  /\ SessionSpec
  /\ \A t \in {Pilot} \cup Pings :
       /\ SF_vars(SCAcquire(t))
       /\ WF_vars(SCSend(t))
       /\ WF_vars(SCRecv(t))
       /\ WF_vars(SCGiveUp(t))
  /\ \A p \in Pings :
       /\ WF_vars(PingCheck(p))
       /\ SF_vars(PingAcquire(p))
       /\ WF_vars(PingTest(p))
       /\ WF_vars(PingRelease(p))
  /\ WF_vars(ConnectReturn(Pilot))
  /\ WF_vars(DisconnectStop(Pilot))
  /\ WF_vars(DisconnectClose(Pilot))
  /\ WF_vars(StatusExit)

ConnectDone == op[Pilot].name = "connect" /\ op[Pilot].pc = "done"

\* C12: a connect() whose SDK-entry command was answered `ok` has started the
\* telemetry loop, set CONNECTED and returned True; a connect() with any
\* other outcome has set ERROR and returned False; whatever was called before.
C12_ConnectFollowsReply ==
  ConnectDone =>
    IF op[Pilot].response = "ok"
      THEN op[Pilot].ret = "True" /\ state = "CONNECTED" /\ status_thread = "alive"
      ELSE op[Pilot].ret = "False" /\ state = "ERROR"

\* C19: a disconnect() called after a connect() that failed, on a controller
\* that never connected, returns True with the state DISCONNECTED.
C19_DisconnectAfterFailedConnect ==
  (/\ op[Pilot].name = "disconnect"
   /\ op[Pilot].before = "ERROR"
   /\ status_thread = "unstarted")
    ~> (/\ op[Pilot].name = "disconnect"
        /\ op[Pilot].pc = "done"
        /\ op[Pilot].ret = "True"
        /\ state = "DISCONNECTED")

\* ---------------------------------------------------------------------------
\* tello_lib/video.py: VideoStream
\* ---------------------------------------------------------------------------

VNewCall(c, nm, p) ==
  [name |-> nm, pc |-> p, ret |-> "None", prev |-> v_call[c].name,
   waited |-> 0, after |-> "None", n |-> v_call[c].n + 1]

VCanCall(c) == v_call[c].pc = "done" /\ v_call[c].n < MaxVideoCalls

\* cv2.VideoCapture(...) returns a new object.
FreshCap ==
  LET fresh == {i \in 1..Len(CapOrder) : v_caps[CapOrder[i]] = "unused"}
  IN  IF fresh = {} THEN None
      ELSE CapOrder[CHOOSE i \in fresh : \A j \in fresh : i <= j]

\* threading.Thread(...) returns a new object.
FreshVThread ==
  LET fresh == {i \in 1..Len(VThreadOrder) : v_loop[VThreadOrder[i]] = "unstarted"}
  IN  IF fresh = {} THEN NoThread
      ELSE VThreadOrder[CHOOSE i \in fresh : \A j \in fresh : i <= j]

\* start: under the state lock, a state other than DISCONNECTED returns
\* False; otherwise INITIALIZING, then flag, counter and frame time are set.
VStartCall(c) ==
  /\ VCanCall(c)
  /\ IF v_state # "DISCONNECTED"
       THEN /\ v_call' = [v_call EXCEPT
                            ![c] = [VNewCall(c, "start", "done") EXCEPT !.ret = "False"]]
            /\ UNCHANGED <<v_state, v_running, v_counter, v_since, v_hist>>
       ELSE /\ v_state' = "INITIALIZING"
            /\ v_running' = TRUE
            /\ v_counter' = 0
            /\ v_since' = 0
            /\ v_hist' = NoHist
            /\ v_call' = [v_call EXCEPT ![c] = VNewCall(c, "start", "open")]
  /\ UNCHANGED <<v_thread, v_loop, v_cap, v_caps, v_last_frame, nonvideo_vars>>

\* start: the frame source is created; when it is not opened, stop() is
\* entered (its first statement clears the flag) and False is to be returned.
VStartOpen(c) ==
  /\ v_call[c].name = "start" /\ v_call[c].pc = "open"
  /\ FreshCap # None
  /\ \E opened \in BOOLEAN :
       /\ v_cap' = FreshCap
       /\ v_caps' = [v_caps EXCEPT ![FreshCap] = IF opened THEN "open" ELSE "closed"]
       /\ IF opened
            THEN /\ v_call' = [v_call EXCEPT ![c].pc = "thread"]
                 /\ UNCHANGED v_running
            ELSE /\ v_call' = [v_call EXCEPT ![c].pc = "join", ![c].after = "False"]
                 /\ v_running' = FALSE
  /\ UNCHANGED <<v_state, v_thread, v_loop, v_counter, v_last_frame, v_since,
                 v_hist, nonvideo_vars>>

\* start: the capture thread is created and started; start_time is taken.
VStartThread(c) ==
  /\ v_call[c].name = "start" /\ v_call[c].pc = "thread"
  /\ FreshVThread # NoThread
  /\ v_thread' = FreshVThread
  /\ v_loop' = [v_loop EXCEPT ![FreshVThread] = "running"]
  /\ v_call' = [v_call EXCEPT ![c].pc = "wait", ![c].waited = 0]
  /\ UNCHANGED <<v_state, v_running, v_cap, v_caps, v_counter, v_last_frame,
                 v_since, v_hist, nonvideo_vars>>

\* start: the wait loop, within the timeout, sees STREAMING (True) or ERROR
\* (False).
VStartSeen(c) ==
  /\ v_call[c].name = "start" /\ v_call[c].pc = "wait"
  /\ v_call[c].waited < StartTimeout
  /\ v_state \in {"STREAMING", "ERROR"}
  /\ v_call' = [v_call EXCEPT ![c].pc = "done", ![c].waited = 0,
                  ![c].ret = IF v_state = "STREAMING" THEN "True" ELSE "False"]
  /\ UNCHANGED <<v_state, v_running, v_thread, v_loop, v_cap, v_caps, v_counter,
                 v_last_frame, v_since, v_hist, nonvideo_vars>>

\* start: the timeout has run out; stop() is entered and False is to be
\* returned.
VStartTimeout(c) ==
  /\ v_call[c].name = "start" /\ v_call[c].pc = "wait"
  /\ v_call[c].waited >= StartTimeout
  /\ v_running' = FALSE
  /\ v_call' = [v_call EXCEPT ![c].pc = "join", ![c].after = "False", ![c].waited = 0]
  /\ UNCHANGED <<v_state, v_thread, v_loop, v_cap, v_caps, v_counter,
                 v_last_frame, v_since, v_hist, nonvideo_vars>>

\* stop: the flag is cleared.
VStopCall(c) ==
  /\ VCanCall(c)
  /\ v_running' = FALSE
  /\ v_call' = [v_call EXCEPT ![c] = VNewCall(c, "stop", "join")]
  /\ UNCHANGED <<v_state, v_thread, v_loop, v_cap, v_caps, v_counter,
                 v_last_frame, v_since, v_hist, nonvideo_vars>>

\* stop (called, or run by start): the capture thread is not alive (any
\* more); release, frame dropped, DISCONNECTED; the call returns.
VStopJoin(c) ==
  /\ v_call[c].pc = "join"
  /\ ~VThreadAlive
  /\ VStopEffect
  /\ v_call' = [v_call EXCEPT ![c].pc = "done", ![c].ret = v_call[c].after]
  /\ UNCHANGED <<v_running, v_thread, v_loop, v_counter, v_since, v_hist, nonvideo_vars>>

\* _video_loop: `while self._running and self._cap and self._cap.isOpened()`
VLoopOn ==
  /\ v_running
  /\ v_cap # None
  /\ IF v_cap = None THEN FALSE ELSE v_caps[v_cap] = "open"

\* _video_loop, after the loop: flag cleared, source released, reference
\* dropped; the thread ends.
VLoopCleanup(th) ==
  /\ v_running' = FALSE
  /\ VRelease
  /\ v_loop' = [v_loop EXCEPT ![th] = "exited"]

\* _video_loop: the loop condition fails.
VLoopEnd(th) ==
  /\ v_loop[th] = "running"
  /\ ~VLoopOn
  /\ VLoopCleanup(th)
  /\ UNCHANGED <<v_state, v_thread, v_counter, v_last_frame, v_since, v_call,
                 v_hist, nonvideo_vars>>

\* _video_loop: `self._consecutive_valid_frames >= self._frame_validation_threshold`
Stabilized_Never(n) == FALSE
Stabilized(n) == n >= frame_validation_threshold

\* _video_loop: `self._consecutive_valid_frames < self._frame_validation_threshold`
Destabilized_Never(n) == FALSE
Destabilized(n) == n < frame_validation_threshold

\* No get_frame call is inside `with self._frame_lock:`.
FrameLockFree ==
  \A c \in VCallers : ~(v_call[c].name = "get_frame" /\ v_call[c].pc = "copy")

\* _video_loop: a valid frame is stored (under the frame lock) and counted.
VFrameValid(th) ==
  /\ v_loop[th] = "running"
  /\ VLoopOn
  /\ FrameLockFree
  /\ v_last_frame' = NextFrame(v_last_frame)
  /\ v_since' = 0
  /\ v_hist' = HistAfter(v_hist, "valid")
  /\ IF v_state = "INITIALIZING"
       THEN /\ v_counter' = v_counter + 1
            /\ v_state' = IF Stabilized(v_counter + 1) THEN "STREAMING" ELSE v_state
       ELSE IF v_state = "STREAMING"
         THEN /\ v_counter' = Min(v_counter + 1, frame_validation_threshold + 10)
              /\ UNCHANGED v_state
         ELSE UNCHANGED <<v_counter, v_state>>
  /\ UNCHANGED <<v_running, v_thread, v_loop, v_cap, v_caps, v_call, nonvideo_vars>>

\* _video_loop: an invalid or absent frame. Past the frame timeout: ERROR
\* and the loop is left; otherwise the counter drops by two and a STREAMING
\* state whose counter is below the threshold becomes ERROR.
VFrameInvalid(th) ==
  /\ v_loop[th] = "running"
  /\ VLoopOn
  /\ IF v_since > frame_timeout
       THEN /\ v_state' = "ERROR"
            /\ VLoopCleanup(th)
            /\ UNCHANGED v_counter
       ELSE /\ v_counter' = IF v_counter - 2 > 0 THEN v_counter - 2 ELSE 0
            /\ v_state' = IF v_state = "STREAMING" /\ Destabilized(v_counter')
                            THEN "ERROR" ELSE v_state
            /\ UNCHANGED <<v_running, v_cap, v_caps, v_loop>>
  /\ v_hist' = HistAfter(v_hist, "invalid")
  /\ UNCHANGED <<v_thread, v_last_frame, v_since, v_call, nonvideo_vars>>

\* _video_loop: an exception in the iteration (read, or the callback after
\* the frame was stored): ERROR and the loop is left.
VFrameRaise(th) ==
  /\ v_loop[th] = "running"
  /\ VLoopOn
  /\ \E stored \in BOOLEAN :
       /\ stored => FrameLockFree
       /\ v_last_frame' = IF stored THEN NextFrame(v_last_frame) ELSE v_last_frame
       /\ v_since' = IF stored THEN 0 ELSE v_since
  /\ v_state' = "ERROR"
  /\ v_hist' = HistAfter(v_hist, "raised")
  /\ VLoopCleanup(th)
  /\ UNCHANGED <<v_thread, v_counter, v_call, nonvideo_vars>>

\* Time passes for the frame clock and for the callers waiting in start
\* (start_time is a local of the wait loop).
VTick ==
  /\ v_since' = Min(v_since + VTickSeconds, frame_timeout + VTickSeconds)
  /\ v_call' = [c \in VCallers |->
                  IF v_call[c].pc = "wait"
                    THEN [v_call[c] EXCEPT !.waited = Min(@ + VTickSeconds, StartTimeout)]
                    ELSE v_call[c]]
  /\ UNCHANGED <<v_state, v_running, v_thread, v_loop, v_cap, v_caps, v_counter,
                 v_last_frame, v_hist, nonvideo_vars>>

VideoNext ==
  \/ \E c \in {VOwner} :
       \/ VStartCall(c) \/ VStartOpen(c) \/ VStartThread(c)
       \/ VStartSeen(c) \/ VStartTimeout(c)
       \/ VStopCall(c) \/ VStopJoin(c)
  \/ \E th \in VThreads :
       VLoopEnd(th) \/ VFrameValid(th) \/ VFrameInvalid(th) \/ VFrameRaise(th)
  \/ VTick

VideoSpec == Init /\ [][VideoNext]_vars

\* ---------------------------------------------------------------------------
\* drone.py: VideoStream (same fields, except that the class keeps no
\* _last_frame_time: v_since is the wall-clock time since the last valid
\* frame, which the code never reads)
\* ---------------------------------------------------------------------------

\* start: under the state lock, a state other than DISCONNECTED returns
\* False; otherwise INITIALIZING, then flag and counter are set.
DVStartCall(c) ==
  /\ VCanCall(c)
  /\ IF v_state # "DISCONNECTED"
       THEN /\ v_call' = [v_call EXCEPT
                            ![c] = [VNewCall(c, "start", "done") EXCEPT !.ret = "False"]]
            /\ UNCHANGED <<v_state, v_running, v_counter, v_since, v_hist>>
       ELSE /\ v_state' = "INITIALIZING"
            /\ v_running' = TRUE
            /\ v_counter' = 0
            /\ v_since' = 0
            /\ v_hist' = NoHist
            /\ v_call' = [v_call EXCEPT ![c] = VNewCall(c, "start", "open")]
  /\ UNCHANGED <<v_thread, v_loop, v_cap, v_caps, v_last_frame, nonvideo_vars>>

\* start: the frame source is created; when it is not opened, stop() is
\* entered and False is to be returned.
DVStartOpen(c) ==
  /\ v_call[c].name = "start" /\ v_call[c].pc = "open"
  /\ FreshCap # None
  /\ \E opened \in BOOLEAN :
       /\ v_cap' = FreshCap
       /\ v_caps' = [v_caps EXCEPT ![FreshCap] = IF opened THEN "open" ELSE "closed"]
       /\ IF opened
            THEN /\ v_call' = [v_call EXCEPT ![c].pc = "thread"]
                 /\ UNCHANGED v_running
            ELSE /\ v_call' = [v_call EXCEPT ![c].pc = "join", ![c].after = "False"]
                 /\ v_running' = FALSE
  /\ UNCHANGED <<v_state, v_thread, v_loop, v_counter, v_last_frame, v_since,
                 v_hist, nonvideo_vars>>

\* start: the capture thread is created and started; start_time is taken.
DVStartThread(c) ==
  /\ v_call[c].name = "start" /\ v_call[c].pc = "thread"
  /\ FreshVThread # NoThread
  /\ v_thread' = FreshVThread
  /\ v_loop' = [v_loop EXCEPT ![FreshVThread] = "running"]
  /\ v_call' = [v_call EXCEPT ![c].pc = "wait", ![c].waited = 0]
  /\ UNCHANGED <<v_state, v_running, v_cap, v_caps, v_counter, v_last_frame,
                 v_since, v_hist, nonvideo_vars>>

\* start: the wait loop, within the timeout, sees STREAMING or ERROR.
DVStartSeen(c) ==
  /\ v_call[c].name = "start" /\ v_call[c].pc = "wait"
  /\ v_call[c].waited < DStartTimeout
  /\ v_state \in {"STREAMING", "ERROR"}
  /\ v_call' = [v_call EXCEPT ![c].pc = "done", ![c].waited = 0,
                  ![c].ret = IF v_state = "STREAMING" THEN "True" ELSE "False"]
  /\ UNCHANGED <<v_state, v_running, v_thread, v_loop, v_cap, v_caps, v_counter,
                 v_last_frame, v_since, v_hist, nonvideo_vars>>

\* start: the timeout has run out; stop() is entered.
DVStartTimeout(c) ==
  /\ v_call[c].name = "start" /\ v_call[c].pc = "wait"
  /\ v_call[c].waited >= DStartTimeout
  /\ v_running' = FALSE
  /\ v_call' = [v_call EXCEPT ![c].pc = "join", ![c].after = "False", ![c].waited = 0]
  /\ UNCHANGED <<v_state, v_thread, v_loop, v_cap, v_caps, v_counter,
                 v_last_frame, v_since, v_hist, nonvideo_vars>>

\* stop: the flag is cleared.
DVStopCall(c) ==
  /\ VCanCall(c)
  /\ v_running' = FALSE
  /\ v_call' = [v_call EXCEPT ![c] = VNewCall(c, "stop", "join")]
  /\ UNCHANGED <<v_state, v_thread, v_loop, v_cap, v_caps, v_counter,
                 v_last_frame, v_since, v_hist, nonvideo_vars>>

\* stop (called, or run by start): `if self._thread: self._thread.join()`
\* has returned; the source is released and the frame dropped. _state is
\* not assigned.
DVStopJoin(c) ==
  /\ v_call[c].pc = "join"
  /\ ~VThreadAlive
  /\ VRelease
  /\ v_last_frame' = None
  /\ v_call' = [v_call EXCEPT ![c].pc = "done", ![c].ret = v_call[c].after]
  /\ UNCHANGED <<v_state, v_running, v_thread, v_loop, v_counter, v_since,
                 v_hist, nonvideo_vars>>

\* _video_loop: the loop condition fails and the thread ends; nothing is
\* released here.
DVLoopEnd(th) ==
  /\ v_loop[th] = "running"
  /\ ~VLoopOn
  /\ v_loop' = [v_loop EXCEPT ![th] = "exited"]
  /\ UNCHANGED <<v_state, v_running, v_thread, v_cap, v_caps, v_counter,
                 v_last_frame, v_since, v_call, v_hist, nonvideo_vars>>

\* _video_loop: a valid frame is stored and counted.
DVFrameValid(th) ==
  /\ v_loop[th] = "running"
  /\ VLoopOn
  /\ v_last_frame' = NextFrame(v_last_frame)
  /\ v_since' = 0
  /\ v_hist' = HistAfter(v_hist, "valid")
  /\ IF v_state = "INITIALIZING"
       THEN /\ v_counter' = v_counter + 1
            /\ v_state' = IF v_counter + 1 >= DFrameValidationThreshold
                            THEN "STREAMING" ELSE v_state
       ELSE IF v_state = "STREAMING"
         THEN /\ v_counter' = Min(v_counter + 1, DFrameValidationThreshold + 10)
              /\ UNCHANGED v_state
         ELSE UNCHANGED <<v_counter, v_state>>
  /\ UNCHANGED <<v_running, v_thread, v_loop, v_cap, v_caps, v_call,
                 nonvideo_vars>>

\* _video_loop: an invalid frame; the counter drops by two and a STREAMING
\* state whose counter is below the threshold becomes ERROR.
DVFrameInvalid(th) ==
  /\ v_loop[th] = "running"
  /\ VLoopOn
  /\ v_counter' = IF v_counter - 2 > 0 THEN v_counter - 2 ELSE 0
  /\ v_state' = IF v_state = "STREAMING" /\ v_counter' < DFrameValidationThreshold
                  THEN "ERROR" ELSE v_state
  /\ v_hist' = HistAfter(v_hist, "invalid")
  /\ UNCHANGED <<v_running, v_thread, v_loop, v_cap, v_caps, v_last_frame,
                 v_since, v_call, nonvideo_vars>>

\* _video_loop: an exception in the iteration: ERROR, and the loop goes on.
DVFrameRaise(th) ==
  /\ v_loop[th] = "running"
  /\ VLoopOn
  /\ \E stored \in BOOLEAN :
       v_last_frame' = IF stored THEN NextFrame(v_last_frame) ELSE v_last_frame
  /\ v_state' = "ERROR"
  /\ v_hist' = HistAfter(v_hist, "raised")
  /\ UNCHANGED <<v_running, v_thread, v_loop, v_cap, v_caps, v_counter, v_since,
                 v_call, nonvideo_vars>>

\* Time passes, for the callers waiting in start too.
DVTick ==
  /\ v_since' = Min(v_since + VTickSeconds, frame_timeout + VTickSeconds)
  /\ v_call' = [c \in VCallers |->
                  IF v_call[c].pc = "wait"
                    THEN [v_call[c] EXCEPT !.waited = Min(@ + VTickSeconds, DStartTimeout)]
                    ELSE v_call[c]]
  /\ UNCHANGED <<v_state, v_running, v_thread, v_loop, v_cap, v_caps, v_counter,
                 v_last_frame, v_hist, nonvideo_vars>>

DVideoNext ==
  \/ \E c \in {VOwner} :
       \/ DVStartCall(c) \/ DVStartOpen(c) \/ DVStartThread(c)
       \/ DVStartSeen(c) \/ DVStartTimeout(c)
       \/ DVStopCall(c) \/ DVStopJoin(c)
  \/ \E th \in VThreads :
       DVLoopEnd(th) \/ DVFrameValid(th) \/ DVFrameInvalid(th) \/ DVFrameRaise(th)
  \/ DVTick

DVideoSpec == Init /\ [][DVideoNext]_vars

\* A stop() call returns in this step.
StopReturns(c) ==
  /\ v_call[c].name = "stop" /\ v_call[c].pc = "join"
  /\ v_call'[c].pc = "done"

\* C20: stop() called twice in a row, from whatever state: each of the two
\* calls returns without an error and leaves the state DISCONNECTED.
C20_StopTwiceDisconnected ==
  [][\A c \in VCallers :
       StopReturns(c) => v_call'[c].ret = "None" /\ v_state' = "DISCONNECTED"]_vars

\* ---------------------------------------------------------------------------
\* VideoStream: the health counter
\* ---------------------------------------------------------------------------

\* The capture loop of video.py processes a valid / an invalid frame in this
\* step.
ValidFrameStep == \E th \in VThreads : VFrameValid(th)
InvalidFrameStep == \E th \in VThreads : VFrameInvalid(th)

\* A start() call that was accepted returns in this step.
StartReturns(c) ==
  /\ v_call[c].name = "start" /\ v_call[c].pc # "done"
  /\ v_call'[c].pc = "done"

C22_SingleInvalidFrameTolerated ==
  [][(v_state = "STREAMING" /\ InvalidFrameStep /\ v_hist.kind = "valid"
        /\ v_since <= frame_timeout)
     => v_state' # "ERROR"]_vars

\* C23: the state is not STREAMING any more when threshold + 1 invalid
\* frames in a row have been processed.
C23_InvalidRunEndsStreaming ==
  v_state = "STREAMING" =>
    ~(v_hist.kind = "invalid" /\ v_hist.len >= frame_validation_threshold + 1)

\* The longest run STREAMING survives: from the counter's cap, the sixth
\* invalid frame in a row brings the counter below the threshold.
C23_Witness ==
  /\ v_state = "ERROR"
  /\ VThreadAlive
  /\ v_hist = [kind |-> "invalid", len |-> 6]
  /\ v_counter = frame_validation_threshold - 2

\* C24: with the capture loop running in ERROR, a run of threshold valid
\* frames has brought the state back to STREAMING.
C24_ValidRunRecovers ==
  (v_state = "ERROR" /\ VThreadAlive) =>
    ~(v_hist.kind = "valid" /\ v_hist.len >= frame_validation_threshold)

\* The capture loop of drone.py processes an invalid frame in this step.
DInvalidFrameStep == \E th \in VThreads : DVFrameInvalid(th)

\* C25: an invalid frame processed more than the frame timeout after the
\* last valid frame sets ERROR (here: the loop of drone.py).
C25_WatchdogForcesError ==
  [][(DInvalidFrameStep /\ v_since > frame_timeout) => v_state' = "ERROR"]_vars

\* ---------------------------------------------------------------------------
\* drone.py: _parse_height on its own
\* ---------------------------------------------------------------------------

\* Longest run of digits in a height reply.
MaxHeightDigits == 3

HeightDigits == {"0", "1", "5", "8", "9"}

\* The digit strings of length n.
RECURSIVE DigitStrings(_)
DigitStrings(n) ==
  IF n = 0 THEN {<<>>}
  ELSE {<<d>> \o s : d \in HeightDigits, s \in DigitStrings(n - 1)}

\* Height replies: digits, with or without the unit.
HeightInputs ==
  LET nums == UNION {DigitStrings(n) : n \in 1..MaxHeightDigits}
  IN  nums \cup {s \o <<"d", "m">> : s \in nums}

\* self._parse_height(height_str) is called and returns.
ParseHeightCall(str) ==
  /\ d_op' = [name |-> "_parse_height", pc |-> "done", text |-> str,
              height |-> ParseHeight(str)]
  /\ UNCHANGED <<d_state, d_thread, d_running, d_sc, d_pending, d_rxbuf, d_ncalls>>
  /\ UNCHANGED <<lib_vars, status_vars, video_vars>>

HeightNext == \E str \in HeightInputs : ParseHeightCall(str)

HeightSpec == Init /\ [][HeightNext]_vars

IsDigitString(s) == s # <<>> /\ \A i \in 1..Len(s) : s[i] \in Digits

\* C28: digits followed by `dm` parse to ten times the number, digits alone
\* to the number itself.
C28_HeightInCentimetres ==
  d_op.name = "_parse_height" =>
    LET s == d_op.text
        n == Len(s)
    IN  /\ IsDigitString(s) => d_op.height = DigitsVal(s)
        /\ (n > 2 /\ SubSeq(s, n - 1, n) = <<"d", "m">>
              /\ IsDigitString(SubSeq(s, 1, n - 2)))
           => d_op.height = 10 * DigitsVal(SubSeq(s, 1, n - 2))

C28_Witness ==
  /\ d_op.name = "_parse_height"
  /\ d_op.text = <<"8", "d", "m">>
  /\ d_op.height = 80

\* C30: the counter stays within 0 .. threshold + 10; every valid frame adds
\* 1 up to that cap and every invalid frame (short of the watchdog) takes 2
\* off down to 0.
C30_CounterSaturates ==
  [][/\ v_counter' \in 0..(frame_validation_threshold + 10)
     /\ ValidFrameStep =>
          v_counter' = Min(v_counter + 1, frame_validation_threshold + 10)
     /\ (InvalidFrameStep /\ v_since <= frame_timeout) =>
          v_counter' = IF v_counter >= 2 THEN v_counter - 2 ELSE 0]_vars

\* C26: an accepted start() that returns False has run stop(): on return
\* the state is DISCONNECTED (so that a later start() is accepted) and the
\* capture loop has exited.
C26_FailedStartUnwinds ==
  [][\A c \in VCallers :
       (StartReturns(c) /\ v_call'[c].ret = "False")
       => /\ v_state' = "DISCONNECTED"
          /\ (v_thread' # NoThread => v_loop'[v_thread'] = "exited")]_vars

\* ---------------------------------------------------------------------------
\* tello_lib/video_alt.py: VideoStream (v_cap is _container; no counter, and
\* _last_frame_time is written but never read)
\* ---------------------------------------------------------------------------

\* start: a state other than DISCONNECTED returns False; otherwise flag and
\* frame time are set. The state is left as it is.
AVStartCall(c) ==
  /\ VCanCall(c)
  /\ IF v_state # "DISCONNECTED"
       THEN /\ v_call' = [v_call EXCEPT
                            ![c] = [VNewCall(c, "start", "done") EXCEPT !.ret = "False"]]
            /\ UNCHANGED <<v_running, v_since, v_hist>>
       ELSE /\ v_running' = TRUE
            /\ v_since' = 0
            /\ v_hist' = NoHist
            /\ v_call' = [v_call EXCEPT ![c] = VNewCall(c, "start", "open")]
  /\ UNCHANGED <<v_state, v_thread, v_loop, v_cap, v_caps, v_counter,
                 v_last_frame, nonvideo_vars>>

\* start: av.open returns a container, or raises: `except Exception` enters
\* stop() and False is to be returned.
AVStartOpen(c) ==
  /\ v_call[c].name = "start" /\ v_call[c].pc = "open"
  /\ FreshCap # None
  /\ \E opened \in BOOLEAN :
       IF opened
         THEN /\ v_cap' = FreshCap
              /\ v_caps' = [v_caps EXCEPT ![FreshCap] = "open"]
              /\ v_call' = [v_call EXCEPT ![c].pc = "thread"]
              /\ UNCHANGED v_running
         ELSE /\ v_call' = [v_call EXCEPT ![c].pc = "join", ![c].after = "False"]
              /\ v_running' = FALSE
              /\ UNCHANGED <<v_cap, v_caps>>
  /\ UNCHANGED <<v_state, v_thread, v_loop, v_counter, v_last_frame, v_since,
                 v_hist, nonvideo_vars>>

\* start: the capture thread is created and started; start_time is taken.
AVStartThread(c) ==
  /\ v_call[c].name = "start" /\ v_call[c].pc = "thread"
  /\ FreshVThread # NoThread
  /\ v_thread' = FreshVThread
  /\ v_loop' = [v_loop EXCEPT ![FreshVThread] = "starting"]
  /\ v_call' = [v_call EXCEPT ![c].pc = "wait", ![c].waited = 0]
  /\ UNCHANGED <<v_state, v_running, v_cap, v_caps, v_counter, v_last_frame,
                 v_since, v_hist, nonvideo_vars>>

\* start: the wait loop, within the timeout, sees STREAMING or ERROR.
AVStartSeen(c) ==
  /\ v_call[c].name = "start" /\ v_call[c].pc = "wait"
  /\ v_call[c].waited < AStartTimeout
  /\ v_state \in {"STREAMING", "ERROR"}
  /\ v_call' = [v_call EXCEPT ![c].pc = "done", ![c].waited = 0,
                  ![c].ret = IF v_state = "STREAMING" THEN "True" ELSE "False"]
  /\ UNCHANGED <<v_state, v_running, v_thread, v_loop, v_cap, v_caps, v_counter,
                 v_last_frame, v_since, v_hist, nonvideo_vars>>

\* start: the timeout has run out: `return False`, and nothing else.
AVStartTimeout(c) ==
  /\ v_call[c].name = "start" /\ v_call[c].pc = "wait"
  /\ v_call[c].waited >= AStartTimeout
  /\ v_call' = [v_call EXCEPT ![c].pc = "done", ![c].waited = 0, ![c].ret = "False"]
  /\ UNCHANGED <<v_state, v_running, v_thread, v_loop, v_cap, v_caps, v_counter,
                 v_last_frame, v_since, v_hist, nonvideo_vars>>

\* stop: the flag is cleared.
AVStopCall(c) ==
  /\ VCanCall(c)
  /\ v_running' = FALSE
  /\ v_call' = [v_call EXCEPT ![c] = VNewCall(c, "stop", "join")]
  /\ UNCHANGED <<v_state, v_thread, v_loop, v_cap, v_caps, v_counter,
                 v_last_frame, v_since, v_hist, nonvideo_vars>>

\* stop (called, or run by start): join(timeout=2.0) has returned, with the
\* capture thread ended or not; the container is closed, the frame dropped
\* and the state is DISCONNECTED.
AVStopJoin(c) ==
  /\ v_call[c].pc = "join"
  /\ VStopEffect
  /\ v_call' = [v_call EXCEPT ![c].pc = "done", ![c].ret = v_call[c].after]
  /\ UNCHANGED <<v_running, v_thread, v_loop, v_counter, v_since, v_hist,
                 nonvideo_vars>>

\* _video_loop, after the try: flag cleared, container closed, reference
\* dropped; the thread ends.
AVLoopCleanup(th) ==
  /\ v_running' = FALSE
  /\ VRelease
  /\ v_loop' = [v_loop EXCEPT ![th] = "exited"]

\* _video_loop: the stream is looked up and the decoder created, then the
\* state is STREAMING; with the container gone (None, or closed) this
\* raises: ERROR and the thread ends.
AVLoopBegin(th) ==
  /\ v_loop[th] = "starting"
  /\ IF v_cap # None /\ (IF v_cap = None THEN FALSE ELSE v_caps[v_cap] = "open")
       THEN /\ v_state' = "STREAMING"
            /\ v_loop' = [v_loop EXCEPT ![th] = "running"]
            /\ UNCHANGED <<v_running, v_cap, v_caps>>
       ELSE /\ v_state' = "ERROR"
            /\ AVLoopCleanup(th)
  /\ UNCHANGED <<v_thread, v_counter, v_last_frame, v_since, v_hist, v_call,
                 nonvideo_vars>>

\* _video_loop: the decoder yields a frame while the flag is set; it is
\* converted and stored, or the conversion raises and the frame is skipped.
AVFrame(th) ==
  /\ v_loop[th] = "running"
  /\ v_running
  /\ v_cap # None
  /\ IF v_cap = None THEN FALSE ELSE v_caps[v_cap] = "open"
  /\ \E converted \in BOOLEAN :
       IF converted
         THEN /\ v_last_frame' = NextFrame(v_last_frame)
              /\ v_since' = 0
              /\ v_hist' = HistAfter(v_hist, "valid")
         ELSE /\ v_hist' = HistAfter(v_hist, "raised")
              /\ UNCHANGED <<v_last_frame, v_since>>
  /\ UNCHANGED <<v_state, v_running, v_thread, v_loop, v_cap, v_caps, v_counter,
                 v_call, nonvideo_vars>>

\* _video_loop: the loop is left: by `break` on a frame that finds the flag
\* cleared, at the end of the stream, or by an exception of the decoder
\* (closed container, read timeout), which sets ERROR.
AVLoopEnd(th) ==
  /\ v_loop[th] = "running"
  /\ \E raised \in BOOLEAN :
       v_state' = IF raised THEN "ERROR" ELSE v_state
  /\ AVLoopCleanup(th)
  /\ UNCHANGED <<v_thread, v_counter, v_last_frame, v_since, v_hist, v_call,
                 nonvideo_vars>>

\* Time passes, for the callers waiting in start too.
AVTick ==
  /\ v_since' = Min(v_since + VTickSeconds, frame_timeout + VTickSeconds)
  /\ v_call' = [c \in VCallers |->
                  IF v_call[c].pc = "wait"
                    THEN [v_call[c] EXCEPT !.waited = Min(@ + VTickSeconds, AStartTimeout)]
                    ELSE v_call[c]]
  /\ UNCHANGED <<v_state, v_running, v_thread, v_loop, v_cap, v_caps, v_counter,
                 v_last_frame, v_hist, nonvideo_vars>>

AVideoNext ==
  \/ \E c \in {VOwner} :
       \/ AVStartCall(c) \/ AVStartOpen(c) \/ AVStartThread(c)
       \/ AVStartSeen(c) \/ AVStartTimeout(c)
       \/ AVStopCall(c) \/ AVStopJoin(c)
  \/ \E th \in VThreads : AVLoopBegin(th) \/ AVFrame(th) \/ AVLoopEnd(th)
  \/ AVTick

AVideoSpec == Init /\ [][AVideoNext]_vars

\* C29: the state becomes STREAMING only from INITIALIZING, with the counter
\* at the threshold or above and a frame stored.
C29_StreamingOnlyByCounter ==
  [][(v_state # "STREAMING" /\ v_state' = "STREAMING")
     => /\ v_state = "INITIALIZING"
        /\ v_counter' >= AFrameValidationThreshold
        /\ v_last_frame' # None]_vars

\* ---------------------------------------------------------------------------
\* tello_lib/video.py: get_frame
\* ---------------------------------------------------------------------------

\* get_frame: the frame lock is taken and `self._last_frame is not None` is
\* evaluated; an empty buffer returns None.
VGetFrameCall(c) ==
  /\ VCanCall(c)
  /\ v_call' = [v_call EXCEPT
                  ![c] = VNewCall(c, "get_frame",
                                  IF v_last_frame = None THEN "done" ELSE "copy")]
  /\ UNCHANGED <<v_state, v_running, v_thread, v_loop, v_cap, v_caps, v_counter,
                 v_last_frame, v_since, v_hist, nonvideo_vars>>

\* get_frame: `self._last_frame.copy()` reads the attribute again: a copy of
\* the frame, or AttributeError when stop() has put None there meanwhile.
VGetFrameCopy(c) ==
  /\ v_call[c].name = "get_frame" /\ v_call[c].pc = "copy"
  /\ v_call' = [v_call EXCEPT
                  ![c].pc = "done",
                  ![c].ret = IF v_last_frame = None THEN "AttributeError"
                             ELSE v_last_frame]
  /\ UNCHANGED <<v_state, v_running, v_thread, v_loop, v_cap, v_caps, v_counter,
                 v_last_frame, v_since, v_hist, nonvideo_vars>>

FrameNext ==
  \/ \E c \in {VOwner} :
       \/ VStartCall(c) \/ VStartOpen(c) \/ VStartThread(c) \/ VStartSeen(c)
       \/ VStopCall(c) \/ VStopJoin(c)
  \/ \E c \in {VReader} : VGetFrameCall(c) \/ VGetFrameCopy(c)
  \/ \E th \in VThreads : VLoopEnd(th) \/ VFrameValid(th)

FrameSpec == Init /\ [][FrameNext]_vars

\* A get_frame() call returns in this step.
GetFrameReturns(c) ==
  /\ v_call'[c].name = "get_frame" /\ v_call'[c].pc = "done"
  /\ v_call[c] # v_call'[c]

\* C27: get_frame() returns the frame the buffer holds, which is the one
\* stored last, or None when the buffer is empty; the buffer is empty until
\* a frame is stored and after stop().
C27_LatestFrameOrNone ==
  [][/\ \A c \in VCallers : GetFrameReturns(c) => v_call'[c].ret = v_last_frame
     /\ (v_last_frame' # v_last_frame) =>
          \/ (\E th \in VThreads : VFrameValid(th)) /\ v_last_frame' # None
          \/ (\E c \in VCallers : VStopJoin(c)) /\ v_last_frame' = None]_vars

\* ---------------------------------------------------------------------------
\* Exceptions in the capture loop
\* ---------------------------------------------------------------------------

\* An iteration of the capture loop of drone.py raises.
DRaiseStep == \E th \in VThreads : DVFrameRaise(th)

\* C31: an exception inside the capture loop sets the state to ERROR and
\* ends the loop (the thread has left it when the handler is done), so that
\* no frame is stored after an exception until the stream is started again.
C31_ExceptionEndsLoop ==
  [][/\ DRaiseStep => v_state' = "ERROR" /\ v_loop'[v_thread'] = "exited"
     /\ v_hist.kind = "raised" => v_last_frame' \in {v_last_frame, None}]_vars

\* ---------------------------------------------------------------------------
\* Release after the loop has exited
\* ---------------------------------------------------------------------------

\* Some capture thread is inside _video_loop.
CaptureLoopAlive == \E th \in VThreads : v_loop[th] \in {"starting", "running"}

\* The frame source the stream holds is open.
SourceOpen == IF v_cap = None THEN FALSE ELSE v_caps[v_cap] = "open"

\* The owner's last call was stop() and it has returned.
StopReturned == v_call[VOwner].name = "stop" /\ v_call[VOwner].pc = "done"

\* C32: the frame source is released only after the capture loop has
\* exited, so a capture loop that is alive always has its source open, and
\* between the return of stop() and the next call the loop writes neither
\* the frame buffer nor the state.
C32_ReleaseAfterLoopExit ==
  [][/\ CaptureLoopAlive' => SourceOpen'
     /\ (StopReturned /\ v_call' = v_call) =>
          UNCHANGED <<v_last_frame, v_state>>]_vars

\* ---------------------------------------------------------------------------
\* tello_lib/controller.py: the telemetry loop on whole datagrams
\* ---------------------------------------------------------------------------

\* Telemetry datagrams received by one controller.
MaxTelemetry == 2

\* A telemetry item `key:value`, or `key` alone when colon is FALSE; the
\* value is kept as its characters.
StatusKeys ==
  <<"pitch", "roll", "yaw", "vgx", "vgy", "vgz", "templ", "temph", "tof",
    "h", "bat", "baro", "time", "agx", "agy", "agz">>

DigitChar(n) == CHOOSE c \in Digits : DigitVal(c) = n

\* str(n) for 0 <= n < 100.
Numeral(n) ==
  IF n < 10 THEN <<DigitChar(n)>> ELSE <<DigitChar(n \div 10), DigitChar(n % 10)>>

\* The reading the vehicle reports in item i: neighbouring items and
\* successive datagrams (seed) report different numbers; items of the float
\* fields carry a fraction.
Reported(i, seed) == i + seed

ValueText(i, seed) ==
  IF StatusFields[i] \in FloatFields
    THEN Numeral(Reported(i, seed)) \o <<".", "5">>
    ELSE Numeral(Reported(i, seed))

Item(i, seed) == [key |-> StatusKeys[i], colon |-> TRUE, val |-> ValueText(i, seed)]

\* An item without a colon.
Junk == [key |-> "junk", colon |-> FALSE, val |-> <<>>]

\* A datagram of 16 well-formed items.
WellFormed(seed) == [i \in 1..Len(StatusFields) |-> Item(i, seed)]

\* The datagrams the vehicle sends: well-formed ones, and ones with a
\* defect at item pos: a value that is no number, the item replaced by one
\* without a colon, an item without a colon put in front of it, or the
\* datagram cut off before it.
Seeds == {0, 1}
DefectPositions == {1, 6, 16}
Defects == {"value", "colon", "extra", "short"}

TelemetryInputs ==
  {[seed |-> s, defect |-> "none", pos |-> 0] : s \in Seeds}
    \cup [seed : Seeds, defect : Defects, pos : DefectPositions]

Datagram(inp) ==
  LET base == WellFormed(inp.seed)
  IN  CASE inp.defect = "none" -> base
        [] inp.defect = "value" -> [base EXCEPT ![inp.pos].val = <<"x">>]
        [] inp.defect = "colon" -> [base EXCEPT ![inp.pos] = Junk]
        [] inp.defect = "extra" ->
             SubSeq(base, 1, inp.pos - 1) \o <<Junk>>
               \o SubSeq(base, inp.pos, Len(base))
        [] inp.defect = "short" -> SubSeq(base, 1, inp.pos - 1)

\* ':' in item
HasColon(item) == item.colon

\* item.split(':')[1]
TokenValue(item) == item.val

\* values = [item.split(':')[1] for item in raw_status.split(';') if ':' in item]
Values(dgram) ==
  LET kept == SelectSeq(dgram, HasColon)
  IN  [i \in 1..Len(kept) |-> TokenValue(kept[i])]

\* int(v) and float(v) return; otherwise they raise ValueError.
IsIntText(v) == v # <<>> /\ \A i \in 1..Len(v) : v[i] \in Digits
IsFloatText(v) == (\A i \in 1..Len(v) : v[i] \in Digits \cup {"."}) /\ IsFloat(v)

Parses(field, v) == IF field \in FloatFields THEN IsFloatText(v) ELSE IsIntText(v)

\* int(v), and float(v) in tenths.
Converted(field, v) ==
  IF field \in FloatFields THEN ScaledInt(v, 10) ELSE DigitsVal(v)

\* The index of STATUS_UPDATES that writes a field (1-based).
FieldIndex_Rotated(f) ==
  CHOOSE i \in 1..Len(StatusFields) :
    StatusFields[IF i = 1 THEN Len(StatusFields) ELSE i - 1] = f
FieldIndex(f) == CHOOSE i \in 1..Len(StatusFields) : StatusFields[i] = f

\* One entry of STATUS_UPDATES applied to the values: the field is written
\* when there is a value at its index and the conversion returns; ValueError
\* leaves it as it is.
Updated(f, values, old) ==
  IF FieldIndex(f) <= Len(values) /\ Parses(f, values[FieldIndex(f)])
    THEN Converted(f, values[FieldIndex(f)])
    ELSE old

\* _status_loop: one datagram is received, split and written to _status.
StatusRecv(inp) ==
  /\ status_thread = "alive"
  /\ running
  /\ status_socket = "open"
  /\ telemetry.n < MaxTelemetry
  /\ LET values == Values(Datagram(inp))
     IN  /\ telemetry' =
               [fields |-> [f \in StoredFields |->
                              Updated(f, values, telemetry.fields[f])],
                last |-> inp, n |-> telemetry.n + 1]
         /\ altitude' = Updated("altitude", values, altitude)
  /\ UNCHANGED <<state, running, status_thread, status_socket, op, speed,
                 d_status>>
  /\ UNCHANGED <<ch_vars, net_vars, ncalls, drone_vars, video_vars>>

TelemetryNext ==
  \/ \E t \in {Pilot} : SCAcquire(t) \/ SCSend(t) \/ SCRecv(t) \/ SCGiveUp(t)
  \/ DroneReply
  \/ DroneDrop
  \/ (NeverStarted /\ ConnectCall(Pilot)) \/ ConnectReturn(Pilot)
  \/ \E inp \in TelemetryInputs : StatusRecv(inp)

TelemetrySpec == Init /\ [][TelemetryNext]_vars

\* The value of a field of _status.
FieldValue(f) == IF f = "altitude" THEN altitude ELSE telemetry.fields[f]

\* What item i of a datagram reports, in the unit of its field.
Expected(i, seed) ==
  IF StatusFields[i] \in FloatFields
    THEN Reported(i, seed) * 10 + 5 ELSE Reported(i, seed)

\* C34: a datagram of 16 well-formed items writes the value of item N into
\* the Nth field of the fixed order, and leaves the state and the speed as
\* they are.
C34_FixedOrderFields ==
  [][\A inp \in TelemetryInputs :
       (inp.defect = "none" /\ StatusRecv(inp)) =>
          /\ \A i \in 1..Len(StatusFields) :
               FieldValue(StatusFields[i])' = Expected(i, inp.seed)
          /\ UNCHANGED <<state, speed>>]_vars

C34_Witness ==
  /\ telemetry.n = 2
  /\ telemetry.last = [seed |-> 1, defect |-> "none", pos |-> 0]
  /\ FieldValue("pitch") = 2
  /\ FieldValue("altitude") = 11
  /\ FieldValue("acceleration.z") = 175

\* C40: when an item of a datagram has no colon, the items after it are
\* still written to their own fields: item N to the Nth field.
C40_ColonlessItemSkipped ==
  [][\A inp \in TelemetryInputs :
       (inp.defect = "colon" /\ StatusRecv(inp)) =>
          \A i \in (inp.pos + 1)..Len(StatusFields) :
            FieldValue(StatusFields[i])' = Expected(i, inp.seed)]_vars

\* ---------------------------------------------------------------------------
\* drone.py: the telemetry loop and cleanup()
\* ---------------------------------------------------------------------------

\* _status_loop: `while self._running:`.
DStatusTest ==
  /\ d_thread = "alive"
  /\ d_thread' = IF d_running THEN "recv" ELSE "exited"
  /\ UNCHANGED <<d_state, d_running, d_op, d_sc, d_pending, d_rxbuf, d_ncalls,
                 lib_vars, status_vars, video_vars>>

\* The datagrams the vehicle sends to drone.py: well-formed ones and ones
\* whose `bat` or `time` item has a value that is no number.
DDefectPositions == {FieldIndex("battery"), FieldIndex("time")}

DTelemetryInputs ==
  {[seed |-> s, defect |-> "none", pos |-> 0] : s \in Seeds}
    \cup [seed : Seeds, defect : {"value"}, pos : DDefectPositions]

\* The body of the try of _status_loop over the items from the first on:
\* `"bat:" in item` writes battery, `"time" in item` writes flight_time,
\* each with int(item.split(':')[1]); the first exception (ValueError, or
\* IndexError for a `time` without colon) leaves the loop over the items.
RECURSIVE DParseItems(_, _)
DParseItems(items, st) ==
  IF items = <<>> THEN st
  ELSE LET item == Head(items)
       IN  IF item.colon /\ item.key = "bat"
             THEN IF IsIntText(item.val)
                    THEN DParseItems(Tail(items),
                                     [st EXCEPT !.battery = DigitsVal(item.val)])
                    ELSE st
           ELSE IF item.key = "time"
             THEN IF item.colon /\ IsIntText(item.val)
                    THEN DParseItems(Tail(items),
                                     [st EXCEPT !.flight_time = DigitsVal(item.val)])
                    ELSE st
           ELSE DParseItems(Tail(items), st)

\* _status_loop: recvfrom on the telemetry socket, which has no timeout,
\* returns because the vehicle has sent a telemetry datagram; the items are
\* parsed (an exception is logged) and the loop comes back to its test.
DStatusRecv(inp) ==
  /\ d_thread = "recv"
  /\ d_thread' = "alive"
  /\ d_status' = DParseItems(Datagram(inp), d_status)
  /\ UNCHANGED <<d_state, d_running, d_op, d_sc, d_pending, d_rxbuf, d_ncalls,
                 lib_vars, speed, telemetry, video_vars>>

\* The telemetry thread of drone.py is alive.
DStatusAlive == d_thread \in {"alive", "recv"}

\* cleanup: _running = False, then the join of the telemetry thread.
DCleanupCall ==
  /\ DCanCall
  /\ d_op.name # "cleanup"
  /\ d_running' = FALSE
  /\ d_op' = DNewOp("cleanup", "join", d_state)
  /\ d_sc' = DIdleFrame
  /\ d_ncalls' = d_ncalls + 1
  /\ UNCHANGED <<d_state, d_thread, d_pending, d_rxbuf, lib_vars, status_vars,
                 video_vars>>

\* cleanup: the telemetry thread is not alive (any more); _video.stop()
\* (flag, join, release, frame dropped) and both sockets are closed. The
\* object is not used after cleanup.
DCleanupJoin ==
  /\ d_op.name = "cleanup" /\ d_op.pc = "join"
  /\ ~DStatusAlive
  /\ ~VThreadAlive
  /\ v_running' = FALSE
  /\ VRelease
  /\ v_last_frame' = None
  /\ d_op' = [d_op EXCEPT !.pc = "done", !.ret = "None"]
  /\ UNCHANGED <<d_state, d_thread, d_running, d_sc, d_pending, d_rxbuf,
                 d_ncalls, lib_vars, status_vars>>
  /\ UNCHANGED <<v_state, v_thread, v_loop, v_counter, v_since, v_hist, v_call>>

\* cleanup() has not been called.
DInUse == d_op.name # "cleanup"

CleanupNext ==
  \/ DSCSend
  \/ DSCRecv
  \/ DDroneReply
  \/ DDroneDrop
  \/ DInUse /\ DConnectCall
  \/ DConnectReturn
  \/ DStatusTest
  \/ \E inp \in DTelemetryInputs : DStatusRecv(inp)
  \/ DCleanupCall
  \/ DCleanupJoin

CleanupSpec == Init /\ [][CleanupNext]_vars

\* The thread scheduler runs every thread that can take a step; nothing is
\* assumed of the vehicle: it may send no telemetry at all.
FairCleanupSpec ==
  /\ CleanupSpec
  /\ WF_vars(DSCSend)
  /\ WF_vars(DSCRecv)
  /\ WF_vars(DConnectReturn)
  /\ WF_vars(DStatusTest)
  /\ WF_vars(DCleanupJoin)

\* C33: the telemetry loop exits once its flag is cleared, whatever the
\* vehicle sends, so that every cleanup() that is called returns.
C33_CleanupTerminates ==
  (d_op.name = "cleanup") ~> (d_op.name = "cleanup" /\ d_op.pc = "done")

\* C35: when the value of one item of a datagram does not parse, the field
\* of every other item is still written, the field of the failing item
\* keeps its value and the telemetry loop goes on.
C35_PerFieldIsolation ==
  [][\A inp \in DTelemetryInputs :
       (inp.defect = "value" /\ DStatusRecv(inp)) =>
          /\ inp.pos # FieldIndex("battery") =>
               d_status'.battery = Expected(FieldIndex("battery"), inp.seed)
          /\ inp.pos # FieldIndex("time") =>
               d_status'.flight_time = Expected(FieldIndex("time"), inp.seed)
          /\ inp.pos = FieldIndex("battery") => d_status'.battery = d_status.battery
          /\ inp.pos = FieldIndex("time") =>
               d_status'.flight_time = d_status.flight_time
          /\ d_thread' = "alive"]_vars

\* ---------------------------------------------------------------------------
\* drone.py: takeoff after a timeout
\* ---------------------------------------------------------------------------

\* takeoff() is at its verification with an "ok" that _send_command made up
\* after the `speed?` probe was answered, and returns in this step.
ProbedTakeoffReturns ==
  /\ d_op.name = "takeoff" /\ d_op.pc = "verify" /\ ~d_op.acked
  /\ d_op'.pc = "done"

\* C36: when `takeoff` times out and the `speed?` probe is answered, the
\* takeoff() call returns success and the state is FLYING.
C36_ProbeReplyMeansTakeoff ==
  [][ProbedTakeoffReturns => d_op'.ret = "True" /\ d_state' = "FLYING"]_vars

\* ---------------------------------------------------------------------------
\* Late replies
\* ---------------------------------------------------------------------------

\* C37: the response send_command returns was sent by the vehicle in reply
\* to the command of that call, never to the command of an earlier call.
C37_ResponseBelongsToCall ==
  [][\A t \in Threads :
       (sc[t].pc = "recv" /\ sc'[t].pc = "done" /\ sc'[t].got) =>
          Head(rxbuf).cmd = sc[t].command]_vars

\* ---------------------------------------------------------------------------
\* Return values and the flight state
\* ---------------------------------------------------------------------------

\* A call of drone.py returns in this step.
DCallReturns(nm) == d_op.name = nm /\ d_op.pc # "done" /\ d_op'.pc = "done"

\* C38: takeoff() and land() return failure with the state they were called
\* in, takeoff() returns success in FLYING and land() in LANDED.
C38_ReturnAgreesWithState ==
  [][/\ DCallReturns("takeoff") =>
          IF d_op'.ret = "True" THEN d_state' = "FLYING"
          ELSE d_state' = d_op.before
     /\ DCallReturns("land") =>
          IF d_op'.ret = "True" THEN d_state' = "LANDED"
          ELSE d_state' = d_op.before]_vars

\* ---------------------------------------------------------------------------
\* tello_lib/video.py: start() and stop() from two threads
\* ---------------------------------------------------------------------------

RaceNext ==
  \/ \E c \in VCallers :
       \/ VStartCall(c) \/ VStartOpen(c) \/ VStartThread(c)
       \/ VStartSeen(c) \/ VStartTimeout(c)
       \/ VStopCall(c) \/ VStopJoin(c)
  \/ \E th \in VThreads : VLoopEnd(th) \/ VFrameRaise(th)
  \/ VTick

RaceSpec == Init /\ [][RaceNext]_vars

\* The capture threads inside _video_loop, and the frame sources that are
\* open.
LoopsAlive == {th \in VThreads : v_loop[th] \in {"starting", "running"}}
SourcesOpen == {cap \in Caps : v_caps[cap] = "open"}

\* C39: whatever the interleaving of start() and stop() calls of different
\* threads, at most one capture loop is running and at most one frame
\* source is open.
C39_OneLoopOneSource ==
  Cardinality(LoopsAlive) <= 1 /\ Cardinality(SourcesOpen) <= 1

====
